---------------------------- MODULE Spec2Model ----------------------------
(***************************************************************************)
(* Waitlist/queue manager of queue_bot_improved.py: the per-room entry     *)
(* store, the room locks, the notification gate, display sync and host     *)
(* failover, as a state machine over the module-level dictionaries and the *)
(* coroutines suspended at platform calls.                                 *)
(*                                                                         *)
(* Scheduling is asyncio's: one coroutine runs at a time (running) until   *)
(* it reaches an await that suspends; only then may another one resume.    *)
(***************************************************************************)
EXTENDS Integers, Sequences, FiniteSets, TLC

\* ------------------------------------------------------------------ bounds

NumUsers == 2          \* members that act on the waitlist
NumTasks == 2          \* handlers in flight at the same time
MaxOps == 3            \* handler invocations in one behaviour
NumRooms == 2          \* voice channel ids

\* --------------------------------------------------------------- constants

MAX_QUEUE_SIZE == 50
MIN_LEVEL == 1
MAX_LEVEL == 9999
SEVEN_DAYS == 7
MaxDays == 8

Users == 1..NumUsers
Tasks == 1..NumTasks
RoomIds == 1..NumRooms
NoUser == 0            \* Python None for a user id
NoTask == 0

\* ----------------------------------------------------------------- strings
\* A string is a sequence of characters; a character is a one-letter string,
\* except "sup2", which stands for U+00B2 (SUPERSCRIPT TWO).

UpperChars == <<"A","B","C","D","E","F","G","H","I","J","K","L","M",
                "N","O","P","Q","R","S","T","U","V","W","X","Y","Z">>
LowerChars == <<"a","b","c","d","e","f","g","h","i","j","k","l","m",
                "n","o","p","q","r","s","t","u","v","w","x","y","z">>
DecimalChars == <<"0","1","2","3","4","5","6","7","8","9">>
\* str.isdigit() is true of these, int() raises ValueError on them
DigitOnlyChars == {"sup2"}
WhitespaceChars == {" ", "\t"}

SeqToSet(s) == {s[i] : i \in 1..Len(s)}

\* str.lower() on one character
LowerChar(c) ==
    IF \E i \in 1..Len(UpperChars) : UpperChars[i] = c
    THEN LowerChars[CHOOSE i \in 1..Len(UpperChars) : UpperChars[i] = c]
    ELSE c

\* str.lower()
StrLower(s) == [i \in 1..Len(s) |-> LowerChar(s[i])]

\* str.strip(): drop leading and trailing whitespace
StrStrip(s) ==
    LET keep == {i \in 1..Len(s) : s[i] \notin WhitespaceChars}
    IN  IF keep = {} THEN <<>>
        ELSE LET lo == CHOOSE i \in keep : \A j \in keep : i <= j
                 hi == CHOOSE i \in keep : \A j \in keep : j <= i
             IN  SubSeq(s, lo, hi)

\* str.isdigit(): non-empty and every character is a digit character
StrIsDigit(s) ==
    /\ Len(s) > 0
    /\ \A i \in 1..Len(s) : s[i] \in SeqToSet(DecimalChars) \cup DigitOnlyChars

\* int() accepts the string: every character is a decimal digit
IntAccepts(s) == Len(s) > 0 /\ \A i \in 1..Len(s) : s[i] \in SeqToSet(DecimalChars)

DecimalValue(c) == (CHOOSE i \in 1..Len(DecimalChars) : DecimalChars[i] = c) - 1

RECURSIVE StrToInt(_)
\* int() of a string of decimal digits
StrToInt(s) ==
    IF Len(s) = 0 THEN 0
    ELSE 10 * StrToInt(SubSeq(s, 1, Len(s) - 1)) + DecimalValue(s[Len(s)])

RECURSIVE IntToStr(_)
\* str() of a natural number
IntToStr(n) ==
    IF n < 10 THEN <<DecimalChars[n + 1]>>
    ELSE Append(IntToStr(n \div 10), DecimalChars[(n % 10) + 1])

\* ALLOWED_CLASSES
Tank == <<"T","a","n","k">>
Cleric == <<"C","l","e","r","i","c">>
Bard == <<"B","a","r","d">>
Summoner == <<"S","u","m","m","o","n","e","r">>
Mage == <<"M","a","g","e">>
Ranger == <<"R","a","n","g","e","r">>
Rogue == <<"R","o","g","u","e">>
Fighter == <<"F","i","g","h","t","e","r">>
ALLOWED_CLASSES == <<Tank, Cleric, Bard, Summoner, Mage, Ranger, Rogue, Fighter>>

NoClass == <<>>        \* Python None for a class name

\* normalise_class_name: the first allowed class whose lower-case form is the
\* stripped, lower-cased input, or None
normalise_class_name(name) ==
    LET n == StrLower(StrStrip(name))
        hits == {i \in 1..Len(ALLOWED_CLASSES) : StrLower(ALLOWED_CLASSES[i]) = n}
    IN  IF hits = {} THEN NoClass
        ELSE ALLOWED_CLASSES[CHOOSE i \in hits : \A j \in hits : i <= j]

\* validate_level: (is_valid, str(level)); raised stands for the ValueError
\* int() raises on a string isdigit() accepted
validate_level(level_str) ==
    LET s == StrStrip(level_str)
    IN  IF ~StrIsDigit(s) THEN [ok |-> FALSE, raised |-> FALSE, value |-> <<>>]
        ELSE IF ~IntAccepts(s) THEN [ok |-> FALSE, raised |-> TRUE, value |-> <<>>]
        ELSE IF StrToInt(s) < MIN_LEVEL \/ StrToInt(s) > MAX_LEVEL
             THEN [ok |-> FALSE, raised |-> FALSE, value |-> <<>>]
        ELSE [ok |-> TRUE, raised |-> FALSE, value |-> IntToStr(StrToInt(s))]

\* ------------------------------------------------------------------- state

VARIABLES
    queues,             \* queues: channel id -> list of entries
    queue_messages,     \* queue_messages: channel id -> display message id
    queue_hosts,        \* queue_hosts: channel id -> host user id
    notified_next,      \* notified_next: channel id -> last notified user id
    queue_locks,        \* queue_locks: channel id -> lock object
    queue_last_active,  \* queue_last_active: channel id -> time
    locks,              \* the asyncio.Lock objects: holder and FIFO of waiters
    tasks,              \* the handler coroutines in flight, with their locals
    running,            \* the coroutine the event loop is running, or NoTask
    members,            \* guild members (guild.get_member)
    voice,              \* channel id -> users connected to the voice channel
    channels,           \* voice channels that exist (guild.get_channel)
    display_live,       \* display messages that exist on the platform
    dm_blocked,         \* users whose direct messages raise Forbidden
    now,                \* datetime.now, in days
    group_info,         \* group_info: channel id -> group constraints
    broadcast_messages, \* broadcast_messages: channel id -> list of ad ids
    ads,                \* advertisement messages posted on the broadcast
                        \* channel: message id -> room and whether it is live
    ad_next,            \* advertisement messages posted so far
    views,              \* component views and modals shown to users
    ops,                \* handler invocations so far
    next_dms,           \* per room: 'next in queue' DMs delivered to the
                        \* current head since it became the head
    order_seen,         \* per room: the pairs <<u, v>> with u seen ahead of v
                        \* in the waitlist during this queue lifetime
    joined,             \* per room: users whose Join reported 'joined'
    appends,            \* per room: Joins that reported 'joined'
    leaves,             \* per room: Leaves that reported 'removed'
    gate_runs           \* per coroutine inside notify_next_in_queue: the length
                        \* of the waitlist when it was called, and the entries
                        \* it has dropped since

dicts == <<queues, queue_messages, queue_hosts, notified_next, queue_locks,
           queue_last_active>>
env == <<members, voice, channels, display_live, dm_blocked, now>>
more == <<group_info, broadcast_messages, ads, ad_next, views>>
observers == <<next_dms, order_seen, joined, appends, leaves, gate_runs>>
vars == <<queues, queue_messages, queue_hosts, notified_next, queue_locks,
          queue_last_active, locks, tasks, running, members, voice, channels,
          display_live, dm_blocked, now, group_info, broadcast_messages, ads,
          ad_next, views, ops, next_dms, order_seen, joined, appends, leaves,
          gate_runs>>

\* Python dict operations on a function whose DOMAIN is the key set
Get(d, k, default) == IF k \in DOMAIN d THEN d[k] ELSE default
Put(d, k, v) == [x \in DOMAIN d \cup {k} |-> IF x = k THEN v ELSE d[x]]
Pop(d, k) == [x \in DOMAIN d \ {k} |-> d[x]]
EmptyDict == [x \in {} |-> 0]

Entry(u, c, l) == [user_id |-> u, class |-> c, level |-> l]

LockIds == 1..(NumRooms + NumTasks)
FreeLock == [holder |-> NoTask, waiters |-> <<>>]

Idle == [op |-> "idle", pc |-> "idle", room |-> 0, user |-> NoUser,
         clazz_raw |-> <<>>, level_raw |-> <<>>,
         clazz |-> NoClass, level |-> <<>>, lock |-> 0, first |-> NoUser,
         msg |-> 0, stack |-> <<>>, result |-> "", position |-> 0,
         keys |-> <<>>, old |-> <<>>, told |-> {}, info |-> <<>>,
         target |-> NoUser, voice_channel |-> 0]

\* the display message of a room is the prompt message posted in it
PromptMsg(r) == r

\* the lowest free handler slot
FreeSlot(t) == tasks[t].op = "idle" /\ \A s \in Tasks : s < t => tasks[s].op # "idle"

\* the entries of a room: queues.get(channel_id, [])
EntriesOf(q, r) == Get(q, r, <<>>)
UserIds(entries) == {entries[i].user_id : i \in 1..Len(entries)}
HeadOf(q, r) == IF EntriesOf(q, r) = <<>> THEN NoUser ELSE EntriesOf(q, r)[1].user_id

\* ------------------------------------------------------------ entry store

\* is_already_in_queue
IsQueued(entries, u) == \E i \in 1..Len(entries) : entries[i].user_id = u

\* the capacity test of Join
BuggyJoinIsFull(entries, u) == ~IsQueued(entries, u) /\ Len(entries) > MAX_QUEUE_SIZE
JoinIsFull(entries, u) == ~IsQueued(entries, u) /\ Len(entries) >= MAX_QUEUE_SIZE

\* the entries after Join's update-or-append
BuggyJoinEntries(entries, u, c, l) == Append(entries, Entry(u, c, l))
MovingJoinEntries(entries, u, c, l) ==
    Append(SelectSeq(entries, LAMBDA e : e.user_id # u), Entry(u, c, l))
JoinEntries(entries, u, c, l) ==
    IF IsQueued(entries, u)
    THEN LET i == CHOOSE j \in 1..Len(entries) :
                     /\ entries[j].user_id = u
                     /\ \A k \in 1..(j - 1) : entries[k].user_id # u
         IN  [entries EXCEPT ![i].class = c, ![i].level = l]
    ELSE Append(entries, Entry(u, c, l))

\* position = next(i for i, e in enumerate(entries, 1) if e["user_id"] == user_id)
ZeroBasedPositionOf(entries, u) ==
    (CHOOSE i \in 1..Len(entries) :
        /\ entries[i].user_id = u
        /\ \A k \in 1..(i - 1) : entries[k].user_id # u) - 1
PositionOf(entries, u) ==
    CHOOSE i \in 1..Len(entries) :
        /\ entries[i].user_id = u
        /\ \A k \in 1..(i - 1) : entries[k].user_id # u

\* [e for e in entries if e["user_id"] != user_id]
RemoveHead(entries, u) == IF entries = <<>> THEN entries ELSE Tail(entries)
RemoveUser(entries, u) == SelectSeq(entries, LAMBDA e : e.user_id # u)

\* ------------------------------------------------------------------ locks

\* get_or_create_lock: the room's lock object, a new one when none is mapped
NewLock ==
    CHOOSE l \in LockIds :
        /\ \A r \in DOMAIN queue_locks : queue_locks[r] # l
        /\ \A t \in Tasks : tasks[t].lock # l
        /\ \A k \in LockIds :
              (/\ \A r \in DOMAIN queue_locks : queue_locks[r] # k
               /\ \A t \in Tasks : tasks[t].lock # k) => l <= k
always_create_lock(r) == NewLock
get_or_create_lock(r) == IF r \in DOMAIN queue_locks THEN queue_locks[r] ELSE NewLock

\* asyncio.Lock.acquire returns at once: not locked and no waiter queued
LockFree(l) == locks[l].holder = NoTask /\ locks[l].waiters = <<>>

\* `lock = await get_or_create_lock(r)` then `async with lock`, by the running
\* task t with locals tk: enter the section (cs) or queue up (wait)
AcquireLock(t, tk, r, cs, wait) ==
    LET l == get_or_create_lock(r)
    IN  /\ queue_locks' = Put(queue_locks, r, l)
        /\ IF LockFree(l)
           THEN /\ locks' = [locks EXCEPT ![l].holder = t]
                /\ tasks' = [tasks EXCEPT ![t] = [tk EXCEPT !.lock = l, !.pc = cs]]
                /\ running' = t
           ELSE /\ locks' = [locks EXCEPT ![l].waiters = Append(@, t)]
                /\ tasks' = [tasks EXCEPT ![t] = [tk EXCEPT !.lock = l, !.pc = wait]]
                /\ running' = NoTask

\* the section a waiting task enters when it gets the lock
SectionOf(pc) ==
    CASE pc = "join_wait" -> "join_cs"
      [] pc = "leave_wait" -> "leave_cs"
      [] pc = "confirm_wait" -> "confirm_cs"
      [] pc = "notify_wait" -> "notify_cs"
      [] pc = "omr_wait" -> "omr_cs"
      [] OTHER -> "none"

\* Lock.acquire of a waiter: the released lock goes to the first waiter
LockGranted(t) ==
    /\ running = NoTask
    /\ SectionOf(tasks[t].pc) # "none"
    /\ LET l == tasks[t].lock
       IN  /\ locks[l].holder = NoTask
           /\ locks[l].waiters # <<>>
           /\ Head(locks[l].waiters) = t
           /\ locks' = [locks EXCEPT ![l].holder = t, ![l].waiters = Tail(@)]
    /\ tasks' = [tasks EXCEPT ![t].pc = SectionOf(tasks[t].pc)]
    /\ running' = t
    /\ UNCHANGED <<dicts, env, more, ops>>

\* Lock.release at the end of `async with`
NotReleased(l) == locks
Released(l) == [locks EXCEPT ![l].holder = NoTask]

\* a coroutine returns to its caller: the label on top of its stack; "end"
\* ends the handler
Return(tk) ==
    IF Head(tk.stack) = "end" THEN Idle
    ELSE [tk EXCEPT !.pc = Head(tk.stack), !.stack = Tail(tk.stack)]
RunningAfter(t, tk) == IF tk.op = "idle" THEN NoTask ELSE t

\* ------------------------------------------ JoinQueueModal.on_submit

\* the modal is submitted: the handler starts and awaits response.defer
JoinSubmit(t, u, r, clazz_raw, level_raw) ==
    /\ running = NoTask
    /\ FreeSlot(t)
    /\ ops < MaxOps
    /\ u \in members
    /\ r \in channels
    /\ tasks' = [tasks EXCEPT ![t] = [Idle EXCEPT !.op = "join", !.pc = "join_defer",
                     !.room = r, !.user = u, !.clazz_raw = clazz_raw,
                     !.level_raw = StrStrip(level_raw)]]
    /\ ops' = ops + 1
    /\ UNCHANGED <<dicts, locks, running, env, more>>

\* clazz is None: the error is sent and the handler returns
JoinRejectRole(t) ==
    /\ running = NoTask
    /\ tasks[t].pc = "join_defer"
    /\ normalise_class_name(tasks[t].clazz_raw) = NoClass
    /\ tasks' = [tasks EXCEPT ![t].pc = "join_reply", ![t].result = "InvalidRole"]
    /\ UNCHANGED <<dicts, locks, running, env, more, ops>>

\* not is_valid: the error is sent and the handler returns
JoinRejectLevel(t) ==
    /\ running = NoTask
    /\ tasks[t].pc = "join_defer"
    /\ normalise_class_name(tasks[t].clazz_raw) # NoClass
    /\ ~validate_level(tasks[t].level_raw).ok
    /\ ~validate_level(tasks[t].level_raw).raised
    /\ tasks' = [tasks EXCEPT ![t].pc = "join_reply", ![t].result = "InvalidLevel"]
    /\ UNCHANGED <<dicts, locks, running, env, more, ops>>

\* int() raises inside validate_level: the handler ends with the exception
JoinLevelRaises(t) ==
    /\ running = NoTask
    /\ tasks[t].pc = "join_defer"
    /\ normalise_class_name(tasks[t].clazz_raw) # NoClass
    /\ validate_level(tasks[t].level_raw).raised
    /\ tasks' = [tasks EXCEPT ![t].pc = "raised", ![t].result = "ValueError"]
    /\ UNCHANGED <<dicts, locks, running, env, more, ops>>

\* the input is valid: the handler takes the room's lock
JoinAcquire(t) ==
    /\ running = NoTask
    /\ tasks[t].pc = "join_defer"
    /\ normalise_class_name(tasks[t].clazz_raw) # NoClass
    /\ validate_level(tasks[t].level_raw).ok
    /\ AcquireLock(t, [tasks[t] EXCEPT !.clazz = normalise_class_name(tasks[t].clazz_raw),
                                       !.level = validate_level(tasks[t].level_raw).value],
                   tasks[t].room, "join_cs", "join_wait")
    /\ UNCHANGED <<queues, queue_messages, queue_hosts, notified_next,
                   queue_last_active, env, more, ops>>

\* the queue is full: the error is sent inside the lock
JoinFull(t) ==
    /\ running = t
    /\ tasks[t].pc = "join_cs"
    /\ LET r == tasks[t].room
           entries == EntriesOf(queues, r)
       IN  /\ JoinIsFull(entries, tasks[t].user)
           /\ queues' = Put(queues, r, entries)
    /\ tasks' = [tasks EXCEPT ![t].pc = "join_full_send", ![t].result = "QueueFull"]
    /\ running' = NoTask
    /\ UNCHANGED <<queue_messages, queue_hosts, notified_next, queue_locks,
                   queue_last_active, locks, env, more, ops>>

\* followup.send returned or raised: either way the `async with` block is
\* left, which releases the lock, and the handler ends
JoinFullSent(t) ==
    /\ running = NoTask
    /\ tasks[t].pc = "join_full_send"
    /\ locks' = Released(tasks[t].lock)
    /\ tasks' = [tasks EXCEPT ![t] = Idle]
    /\ UNCHANGED <<dicts, running, env, more, ops>>

\* update or append, compute the position, release the lock, then render
JoinCommit(t) ==
    /\ running = t
    /\ tasks[t].pc = "join_cs"
    /\ LET r == tasks[t].room
           u == tasks[t].user
           entries == EntriesOf(queues, r)
           after == JoinEntries(entries, u, tasks[t].clazz, tasks[t].level)
       IN  /\ ~JoinIsFull(entries, u)
           /\ queues' = Put(queues, r, after)
           /\ tasks' = [tasks EXCEPT ![t] = [@ EXCEPT
                  !.position = PositionOf(after, u),
                  !.result = IF IsQueued(entries, u) THEN "updated" ELSE "joined",
                  !.pc = IF r \in channels THEN "uqm_entry" ELSE "join_reply",
                  !.stack = IF r \in channels THEN <<"join_after_uqm">> ELSE <<>>]]
           /\ running' = IF r \in channels THEN t ELSE NoTask
    /\ locks' = Released(tasks[t].lock)
    /\ UNCHANGED <<queue_messages, queue_hosts, notified_next, queue_locks,
                   queue_last_active, env, more, ops>>

\* update_queue_message returned: the confirmation is sent
JoinAfterRender(t) ==
    /\ running = t
    /\ tasks[t].pc = "join_after_uqm"
    /\ tasks' = [tasks EXCEPT ![t].pc = "join_reply"]
    /\ running' = NoTask
    /\ UNCHANGED <<dicts, locks, env, more, ops>>

\* followup.send returned: the handler ends
JoinReplied(t) ==
    /\ running = NoTask
    /\ tasks[t].pc \in {"join_reply", "raised"}
    /\ tasks' = [tasks EXCEPT ![t] = Idle]
    /\ UNCHANGED <<dicts, locks, running, env, more, ops>>

\* ---------------------------------------------------- update_queue_message

\* no display message is tracked: return; else fetch it
UqmEntry(t) ==
    /\ running = t
    /\ tasks[t].pc = "uqm_entry"
    /\ LET r == tasks[t].room
           tk == IF r \in DOMAIN queue_messages
                 THEN [tasks[t] EXCEPT !.pc = "uqm_fetch", !.msg = queue_messages[r]]
                 ELSE Return(tasks[t])
       IN  /\ tasks' = [tasks EXCEPT ![t] = tk]
           /\ running' = IF r \in DOMAIN queue_messages THEN NoTask
                         ELSE RunningAfter(t, tk)
    /\ UNCHANGED <<dicts, locks, env, more, ops>>

\* fetch_message returned the message: the embed is built and msg.edit awaited
UqmFetched(t) ==
    /\ running = NoTask
    /\ tasks[t].pc = "uqm_fetch"
    /\ tasks[t].msg \in display_live
    /\ tasks' = [tasks EXCEPT ![t].pc = "uqm_edit"]
    /\ UNCHANGED <<dicts, locks, running, env, more, ops>>

\* queue_messages.pop(channel.id, None)
KeepTracking(messages, r) == messages
DropTracking(messages, r) == Pop(messages, r)

\* fetch_message raised NotFound: the tracking reference is dropped
UqmNotFound(t) ==
    /\ running = NoTask
    /\ tasks[t].pc = "uqm_fetch"
    /\ tasks[t].msg \notin display_live
    /\ queue_messages' = DropTracking(queue_messages, tasks[t].room)
    /\ tasks' = [tasks EXCEPT ![t] = Return(tasks[t])]
    /\ running' = RunningAfter(t, Return(tasks[t]))
    /\ UNCHANGED <<queues, queue_hosts, notified_next, queue_locks,
                   queue_last_active, locks, env, more, ops>>

\* fetch_message raised another error than NotFound: on_member_remove does not
\* catch it and ends
UqmFetchRaises(t) ==
    /\ running = NoTask
    /\ tasks[t].pc = "uqm_fetch"
    /\ tasks[t].op = "omr"
    /\ tasks' = [tasks EXCEPT ![t] = Idle]
    /\ UNCHANGED <<dicts, locks, running, env, more, ops>>

\* msg.edit returned (last_active is set) or raised (it is not); then the gate
UqmEdited(t) ==
    /\ running = NoTask
    /\ tasks[t].pc = "uqm_edit"
    /\ queue_last_active' =
           IF tasks[t].msg \in display_live
           THEN Put(queue_last_active, tasks[t].room, now)
           ELSE queue_last_active
    /\ tasks' = [tasks EXCEPT ![t].pc = "notify_entry"]
    /\ running' = t
    /\ UNCHANGED <<queues, queue_messages, queue_hosts, notified_next,
                   queue_locks, locks, env, more, ops>>

\* ---------------------------------------------------- notify_next_in_queue

\* no entries: the record is dropped
NotifyEmpty(t) ==
    /\ running = t
    /\ tasks[t].pc = "notify_entry"
    /\ EntriesOf(queues, tasks[t].room) = <<>>
    /\ notified_next' = Pop(notified_next, tasks[t].room)
    /\ tasks' = [tasks EXCEPT ![t] = Return(tasks[t])]
    /\ running' = RunningAfter(t, Return(tasks[t]))
    /\ UNCHANGED <<queues, queue_messages, queue_hosts, queue_locks,
                   queue_last_active, locks, env, more, ops>>

\* the head is the user notified last: nothing to do
NotifyAlready(t) ==
    /\ running = t
    /\ tasks[t].pc = "notify_entry"
    /\ EntriesOf(queues, tasks[t].room) # <<>>
    /\ Get(notified_next, tasks[t].room, NoUser) = HeadOf(queues, tasks[t].room)
    /\ tasks' = [tasks EXCEPT ![t] = Return(tasks[t])]
    /\ running' = RunningAfter(t, Return(tasks[t]))
    /\ UNCHANGED <<dicts, locks, env, more, ops>>

\* the head is no guild member: take the lock to drop the entry
NotifyUnreachable(t) ==
    /\ running = t
    /\ tasks[t].pc = "notify_entry"
    /\ EntriesOf(queues, tasks[t].room) # <<>>
    /\ Get(notified_next, tasks[t].room, NoUser) # HeadOf(queues, tasks[t].room)
    /\ HeadOf(queues, tasks[t].room) \notin members
    /\ AcquireLock(t, [tasks[t] EXCEPT !.first = HeadOf(queues, tasks[t].room)],
                   tasks[t].room, "notify_cs", "notify_wait")
    /\ UNCHANGED <<queues, queue_messages, queue_hosts, notified_next,
                   queue_last_active, env, more, ops>>

\* [e for e in entries if e["user_id"] != first_user_id]
KeepFirst(entries, first_user_id) == entries
WithoutFirst(entries, first_user_id) == RemoveUser(entries, first_user_id)

\* the entry of first_user_id is dropped and the gate runs again
NotifyRemove(t) ==
    /\ running = t
    /\ tasks[t].pc = "notify_cs"
    /\ queues' = Put(queues, tasks[t].room,
                     WithoutFirst(EntriesOf(queues, tasks[t].room), tasks[t].first))
    /\ locks' = Released(tasks[t].lock)
    /\ tasks' = [tasks EXCEPT ![t].pc = "notify_entry"]
    /\ UNCHANGED <<queue_messages, queue_hosts, notified_next, queue_locks,
                   queue_last_active, running, env, more, ops>>

\* the head is a member: create_dm and dm.send are awaited
NotifySend(t) ==
    /\ running = t
    /\ tasks[t].pc = "notify_entry"
    /\ EntriesOf(queues, tasks[t].room) # <<>>
    /\ Get(notified_next, tasks[t].room, NoUser) # HeadOf(queues, tasks[t].room)
    /\ HeadOf(queues, tasks[t].room) \in members
    /\ tasks' = [tasks EXCEPT ![t].pc = "notify_dm",
                              ![t].first = HeadOf(queues, tasks[t].room)]
    /\ running' = NoTask
    /\ UNCHANGED <<dicts, locks, env, more, ops>>

\* the platform delivers a direct message to u (else Forbidden is raised)
CanDeliver(u) == u \in members /\ u \notin dm_blocked

\* dm.send returned or raised: first_user_id is recorded either way
NotifyDmDone(t) ==
    /\ running = NoTask
    /\ tasks[t].pc = "notify_dm"
    /\ notified_next' = Put(notified_next, tasks[t].room, tasks[t].first)
    /\ tasks' = [tasks EXCEPT ![t] = Return(tasks[t])]
    /\ running' = RunningAfter(t, Return(tasks[t]))
    /\ UNCHANGED <<queues, queue_messages, queue_hosts, queue_locks,
                   queue_last_active, locks, env, more, ops>>

\* ------------------------------------------------- QueueView.leave_button

\* Leave is pressed: the handler takes the room's lock
LeaveClick(t, u, r) ==
    /\ running = NoTask
    /\ FreeSlot(t)
    /\ ops < MaxOps
    /\ u \in members
    /\ r \in channels
    /\ AcquireLock(t, [Idle EXCEPT !.op = "leave", !.room = r, !.user = u,
                                   !.stack = <<"end">>],
                   r, "leave_cs", "leave_wait")
    /\ ops' = ops + 1
    /\ UNCHANGED <<queues, queue_messages, queue_hosts, notified_next,
                   queue_last_active, env, more>>

\* the user's entry is filtered out; the outcome is sent
LeaveCS(t) ==
    /\ running = t
    /\ tasks[t].pc = "leave_cs"
    /\ tasks[t].op = "leave"
    /\ LET r == tasks[t].room
           entries == EntriesOf(queues, r)
           after == RemoveUser(entries, tasks[t].user)
       IN  /\ queues' = Put(queues, r, after)
           /\ tasks' = [tasks EXCEPT ![t].pc = "leave_reply",
                  ![t].result = IF Len(after) < Len(entries) THEN "removed"
                                ELSE "not_in_queue"]
    /\ locks' = Released(tasks[t].lock)
    /\ running' = NoTask
    /\ UNCHANGED <<queue_messages, queue_hosts, notified_next, queue_locks,
                   queue_last_active, env, more, ops>>

\* send_message returned: render, when the channel exists
LeaveReplied(t) ==
    /\ running = NoTask
    /\ tasks[t].pc = "leave_reply"
    /\ IF tasks[t].room \in channels
       THEN /\ tasks' = [tasks EXCEPT ![t].pc = "uqm_entry"]
            /\ running' = t
       ELSE /\ tasks' = [tasks EXCEPT ![t] = Idle]
            /\ running' = NoTask
    /\ UNCHANGED <<dicts, locks, env, more, ops>>

\* ------------------------------------------ BroadcastJoinView.leave_waitlist

\* Leave Waitlist is pressed on an advertisement of an existing channel
LeaveAdClick(t, u, r) ==
    /\ running = NoTask
    /\ FreeSlot(t)
    /\ ops < MaxOps
    /\ u \in members
    /\ r \in channels
    /\ AcquireLock(t, [Idle EXCEPT !.op = "leave_ad", !.room = r, !.user = u,
                                   !.stack = <<"leave_ad_after">>],
                   r, "leave_cs", "leave_wait")
    /\ ops' = ops + 1
    /\ UNCHANGED <<queues, queue_messages, queue_hosts, notified_next,
                   queue_last_active, env, more>>

\* the user's entry is filtered out; the render follows at once
LeaveAdCS(t) ==
    /\ running = t
    /\ tasks[t].pc = "leave_cs"
    /\ tasks[t].op = "leave_ad"
    /\ LET r == tasks[t].room
           entries == EntriesOf(queues, r)
           after == RemoveUser(entries, tasks[t].user)
       IN  /\ queues' = Put(queues, r, after)
           /\ tasks' = [tasks EXCEPT ![t].pc = "uqm_entry",
                  ![t].result = IF Len(after) < Len(entries) THEN "removed"
                                ELSE "not_in_queue"]
    /\ locks' = Released(tasks[t].lock)
    /\ UNCHANGED <<queue_messages, queue_hosts, notified_next, queue_locks,
                   queue_last_active, running, env, more, ops>>

\* update_queue_message returned: the outcome is sent
LeaveAdAfter(t) ==
    /\ running = t
    /\ tasks[t].pc = "leave_ad_after"
    /\ tasks' = [tasks EXCEPT ![t].pc = "leave_ad_reply"]
    /\ running' = NoTask
    /\ UNCHANGED <<dicts, locks, env, more, ops>>

\* send_message returned: the handler ends
LeaveAdReplied(t) ==
    /\ running = NoTask
    /\ tasks[t].pc = "leave_ad_reply"
    /\ tasks' = [tasks EXCEPT ![t] = Idle]
    /\ UNCHANGED <<dicts, locks, running, env, more, ops>>

\* --------------------------------------------- ConfirmRemoveView.yes_button

\* Yes is pressed on the 'remove from queue?' prompt for the pulled user v
ConfirmYes(t, v, r) ==
    /\ running = NoTask
    /\ FreeSlot(t)
    /\ ops < MaxOps
    /\ AcquireLock(t, [Idle EXCEPT !.op = "confirm", !.room = r, !.user = v],
                   r, "confirm_cs", "confirm_wait")
    /\ ops' = ops + 1
    /\ UNCHANGED <<queues, queue_messages, queue_hosts, notified_next,
                   queue_last_active, env, more>>

\* the pulled user's entry is filtered out, then the render
ConfirmCS(t) ==
    /\ running = t
    /\ tasks[t].pc = "confirm_cs"
    /\ LET r == tasks[t].room
       IN  /\ queues' = Put(queues, r, RemoveUser(EntriesOf(queues, r), tasks[t].user))
           /\ tasks' = [tasks EXCEPT ![t] = [@ EXCEPT
                  !.pc = IF r \in channels THEN "uqm_entry" ELSE "confirm_reply",
                  !.stack = IF r \in channels THEN <<"confirm_after">> ELSE <<>>]]
           /\ running' = IF r \in channels THEN t ELSE NoTask
    /\ locks' = Released(tasks[t].lock)
    /\ UNCHANGED <<queue_messages, queue_hosts, notified_next, queue_locks,
                   queue_last_active, env, more, ops>>

\* update_queue_message returned: the prompt is edited
ConfirmAfter(t) ==
    /\ running = t
    /\ tasks[t].pc = "confirm_after"
    /\ tasks' = [tasks EXCEPT ![t].pc = "confirm_reply"]
    /\ running' = NoTask
    /\ UNCHANGED <<dicts, locks, env, more, ops>>

\* edit_message returned: the handler ends
ConfirmReplied(t) ==
    /\ running = NoTask
    /\ tasks[t].pc = "confirm_reply"
    /\ tasks' = [tasks EXCEPT ![t] = Idle]
    /\ UNCHANGED <<dicts, locks, running, env, more, ops>>

\* ------------------------------------------------ reassign_host_if_needed

\* channel.members: the connected users that are guild members, in order
ChannelMembers(r) == SelectSeq(voice[r], LAMBDA u : u \in members)

\* new_host = channel.members[0]
LastMember(present) == present[Len(present)]
NewHost(present) == present[1]

\* list(d.keys())
NoKeysOf(d) == <<>>
KeysOf(d) ==
    CHOOSE s \in [1..Cardinality(DOMAIN d) -> DOMAIN d] :
        \A i, j \in 1..Cardinality(DOMAIN d) : i < j => s[i] < s[j]

\* host_id is not None and guild.get_member(host_id) is None
GoneOrUnset(r) == r \in DOMAIN queue_hosts => queue_hosts[r] \notin members
HostGone(r) == r \in DOMAIN queue_hosts /\ queue_hosts[r] \notin members

\* no host, or the host is still a guild member: return
ReassignNoop(t) ==
    /\ running = t
    /\ tasks[t].pc = "reassign_entry"
    /\ ~HostGone(tasks[t].room)
    /\ tasks' = [tasks EXCEPT ![t] = Return(tasks[t])]
    /\ running' = RunningAfter(t, Return(tasks[t]))
    /\ UNCHANGED <<dicts, locks, env, more, ops>>

\* the host left the guild and the channel has members: the first one becomes
\* the host and is sent a direct message
ReassignPick(t) ==
    /\ running = t
    /\ tasks[t].pc = "reassign_entry"
    /\ HostGone(tasks[t].room)
    /\ ChannelMembers(tasks[t].room) # <<>>
    /\ queue_hosts' = Put(queue_hosts, tasks[t].room,
                          NewHost(ChannelMembers(tasks[t].room)))
    /\ tasks' = [tasks EXCEPT ![t].pc = "reassign_dm"]
    /\ running' = NoTask
    /\ UNCHANGED <<queues, queue_messages, notified_next, queue_locks,
                   queue_last_active, locks, env, more, ops>>

\* the direct message was sent or refused: render
ReassignDmDone(t) ==
    /\ running = NoTask
    /\ tasks[t].pc = "reassign_dm"
    /\ tasks' = [tasks EXCEPT ![t].pc = "uqm_entry"]
    /\ running' = t
    /\ UNCHANGED <<dicts, locks, env, more, ops>>

\* the host left the guild and the channel is empty: the host is cleared
ReassignClear(t) ==
    /\ running = t
    /\ tasks[t].pc = "reassign_entry"
    /\ HostGone(tasks[t].room)
    /\ ChannelMembers(tasks[t].room) = <<>>
    /\ queue_hosts' = Pop(queue_hosts, tasks[t].room)
    /\ tasks' = [tasks EXCEPT ![t].pc = "uqm_entry"]
    /\ UNCHANGED <<queues, queue_messages, notified_next, queue_locks,
                   queue_last_active, locks, running, env, more, ops>>

\* ------------------------------------------------------------ check_hosts

\* the 5-minute loop fires, again and again; one iteration runs at a time
CheckHostsTick(t) ==
    /\ running = NoTask
    /\ FreeSlot(t)
    /\ \A s \in Tasks : tasks[s].op # "check_hosts"
    /\ tasks' = [tasks EXCEPT ![t] = [Idle EXCEPT !.op = "check_hosts",
                     !.pc = "ch_loop", !.keys = KeysOf(queue_hosts)]]
    /\ running' = t
    /\ UNCHANGED <<dicts, locks, env, more, ops>>

\* the next channel id of the sweep
ChNext(t) ==
    /\ running = t
    /\ tasks[t].pc = "ch_loop"
    /\ tasks[t].keys # <<>>
    /\ LET r == Head(tasks[t].keys)
       IN  tasks' = [tasks EXCEPT ![t] = [@ EXCEPT !.room = r, !.keys = Tail(@),
                  !.pc = IF r \in channels THEN "reassign_entry" ELSE "ch_loop",
                  !.stack = IF r \in channels THEN <<"ch_loop">> ELSE <<>>]]
    /\ UNCHANGED <<dicts, locks, running, env, more, ops>>

\* the sweep is over
ChDone(t) ==
    /\ running = t
    /\ tasks[t].pc = "ch_loop"
    /\ tasks[t].keys = <<>>
    /\ tasks' = [tasks EXCEPT ![t] = Idle]
    /\ running' = NoTask
    /\ UNCHANGED <<dicts, locks, env, more, ops>>

\* fetch_message raised another error than NotFound during the sweep: neither
\* update_queue_message, reassign_host_if_needed nor check_hosts catches it, the
\* iteration ends with the rooms left in keys unvisited and the loop's task is
\* over (pc "ch_failed": is_running() is False, the loop fires no more)
ChFetchRaises(t) ==
    /\ running = NoTask
    /\ tasks[t].pc = "uqm_fetch"
    /\ tasks[t].op = "check_hosts"
    /\ tasks' = [tasks EXCEPT ![t] = [Idle EXCEPT !.op = "check_hosts",
                     !.pc = "ch_failed", !.keys = tasks[t].keys]]
    /\ UNCHANGED <<dicts, locks, running, env, more, ops>>

\* -------------------------------------------------------- on_member_remove

\* a member leaves the guild: the member cache drops it, the handler is scheduled
MemberLeaves(t, u) ==
    /\ running = NoTask
    /\ FreeSlot(t)
    /\ ops < MaxOps
    /\ u \in members \cap Users
    /\ members' = members \ {u}
    /\ tasks' = [tasks EXCEPT ![t] = [Idle EXCEPT !.op = "omr", !.pc = "omr_start",
                     !.user = u]]
    /\ ops' = ops + 1
    /\ UNCHANGED <<dicts, locks, running, voice, channels, display_live,
                   dm_blocked, more, now>>

\* the handler starts: for channel_id in list(queues.keys())
OmrStart(t) ==
    /\ running = NoTask
    /\ tasks[t].pc = "omr_start"
    /\ tasks' = [tasks EXCEPT ![t].pc = "omr_loop", ![t].keys = KeysOf(queues)]
    /\ running' = t
    /\ UNCHANGED <<dicts, locks, env, more, ops>>

\* the next channel id: take its lock
OmrNext(t) ==
    /\ running = t
    /\ tasks[t].pc = "omr_loop"
    /\ tasks[t].keys # <<>>
    /\ AcquireLock(t, [tasks[t] EXCEPT !.room = Head(tasks[t].keys),
                                       !.keys = Tail(tasks[t].keys)],
                   Head(tasks[t].keys), "omr_cs", "omr_wait")
    /\ UNCHANGED <<queues, queue_messages, queue_hosts, notified_next,
                   queue_last_active, env, more, ops>>

\* the loop is over
OmrDone(t) ==
    /\ running = t
    /\ tasks[t].pc = "omr_loop"
    /\ tasks[t].keys = <<>>
    /\ tasks' = [tasks EXCEPT ![t] = Idle]
    /\ running' = NoTask
    /\ UNCHANGED <<dicts, locks, env, more, ops>>

\* the member's entry is filtered out (written back only when one was found);
\* failover when the member was the host
OmrCS(t) ==
    /\ running = t
    /\ tasks[t].pc = "omr_cs"
    /\ LET r == tasks[t].room
           entries == EntriesOf(queues, r)
           after == RemoveUser(entries, tasks[t].user)
           failover == Get(queue_hosts, r, NoUser) = tasks[t].user /\ r \in channels
       IN  /\ queues' = IF Len(after) < Len(entries) THEN Put(queues, r, after)
                        ELSE queues
           /\ tasks' = [tasks EXCEPT ![t] = [@ EXCEPT
                  !.pc = IF failover THEN "reassign_entry" ELSE "omr_render",
                  !.stack = IF failover THEN <<"omr_render">> ELSE <<>>]]
    /\ locks' = Released(tasks[t].lock)
    /\ UNCHANGED <<queue_messages, queue_hosts, notified_next, queue_locks,
                   queue_last_active, running, env, more, ops>>

\* render, when the channel exists; then the next channel id
OmrRender(t) ==
    /\ running = t
    /\ tasks[t].pc = "omr_render"
    /\ LET r == tasks[t].room
       IN  tasks' = [tasks EXCEPT ![t] = [@ EXCEPT
                  !.pc = IF r \in channels THEN "uqm_entry" ELSE "omr_loop",
                  !.stack = IF r \in channels THEN <<"omr_loop">> ELSE <<>>]]
    /\ UNCHANGED <<dicts, locks, running, env, more, ops>>

\* ------------------------------------------------- QueueView host buttons

HostOnlyKinds == {"group_info", "change_host", "broadcast", "pull"}

View(kind, u, r) == [kind |-> kind, user |-> u, room |-> r]

\* if host_id is not None and interaction.user.id != host_id
HostCheckRejects(u, r) == r \in DOMAIN queue_hosts /\ queue_hosts[r] # u

\* group_info_button, change_host_button, broadcast_waitlist_button and
\* pull_button: the host check, then the modal or the select is shown
HostOnlyButton(t, u, r, kind) ==
    /\ running = NoTask
    /\ FreeSlot(t)
    /\ u \in members
    /\ r \in DOMAIN queue_messages
    /\ LET outcome ==
               IF HostCheckRejects(u, r) THEN "PermissionError"
               ELSE IF kind \in {"change_host", "broadcast"} /\ r \notin channels
                    THEN "no_channel"
               ELSE IF kind = "pull" /\ EntriesOf(queues, r) = <<>> THEN "empty"
               ELSE "opened"
       IN  /\ tasks' = [tasks EXCEPT ![t] = [Idle EXCEPT !.op = kind,
                            !.pc = "button_reply", !.room = r, !.user = u,
                            !.result = outcome]]
           /\ views' = IF outcome = "opened" THEN views \cup {View(kind, u, r)}
                       ELSE views
    /\ UNCHANGED <<dicts, locks, running, env, group_info, broadcast_messages,
                   ads, ad_next, ops>>

\* send_message or send_modal returned: the handler ends
ButtonReplied(t) ==
    /\ running = NoTask
    /\ tasks[t].pc = "button_reply"
    /\ tasks' = [tasks EXCEPT ![t] = Idle]
    /\ UNCHANGED <<dicts, locks, running, env, more, ops>>

\* ------------------------------------------------------ PullSelect.callback

\* the voice channel user u is connected to, 0 when there is none
VoiceChannelOf(u) ==
    IF \E c \in RoomIds : \E i \in 1..Len(voice[c]) : voice[c][i] = u
    THEN CHOOSE c \in RoomIds : \E i \in 1..Len(voice[c]) : voice[c][i] = u
    ELSE 0

\* a waiting member is selected: the handler starts and awaits response.defer
PullPick(t, u, r, v) ==
    /\ running = NoTask
    /\ FreeSlot(t)
    /\ ops < MaxOps
    /\ View("pull", u, r) \in views
    /\ tasks' = [tasks EXCEPT ![t] = [Idle EXCEPT !.op = "pull_select",
                     !.pc = "pull_defer", !.room = r, !.user = u, !.target = v]]
    /\ ops' = ops + 1
    /\ UNCHANGED <<dicts, locks, running, env, more>>

\* defer returned: the host must be connected and the target a member, then
\* member.move_to is awaited
PullChecked(t) ==
    /\ running = NoTask
    /\ tasks[t].pc = "pull_defer"
    /\ LET outcome == IF VoiceChannelOf(tasks[t].user) = 0 THEN "no_voice"
                      ELSE IF tasks[t].target \notin members THEN "no_member"
                      ELSE ""
       IN  tasks' = [tasks EXCEPT ![t].result = outcome,
                         ![t].voice_channel = VoiceChannelOf(tasks[t].user),
                         ![t].pc = IF outcome = "" THEN "pull_move" ELSE "button_reply"]
    /\ UNCHANGED <<dicts, locks, running, env, more, ops>>

\* the target was connected and is moved to the channel the host was in after
\* the defer; create_dm and dm.send are awaited
PullMoved(t) ==
    /\ running = NoTask
    /\ tasks[t].pc = "pull_move"
    /\ VoiceChannelOf(tasks[t].target) # 0
    /\ LET v == tasks[t].target
           to == tasks[t].voice_channel
           without == [c \in RoomIds |-> SelectSeq(voice[c], LAMBDA m : m # v)]
       IN  voice' = IF VoiceChannelOf(v) = to THEN voice
                    ELSE [without EXCEPT ![to] = Append(@, v)]
    /\ tasks' = [tasks EXCEPT ![t].pc = "pull_dm", ![t].result = "moved"]
    /\ UNCHANGED <<dicts, locks, running, members, channels, display_live,
                   dm_blocked, now, more, ops>>

\* move_to raised Forbidden or HTTPException: the warning is sent
PullMoveFails(t, error) ==
    /\ running = NoTask
    /\ tasks[t].pc = "pull_move"
    /\ tasks' = [tasks EXCEPT ![t].pc = "button_reply", ![t].result = error]
    /\ UNCHANGED <<dicts, locks, running, env, more, ops>>

\* the message was sent or refused: the ConfirmRemoveView is shown
PullDmDone(t) ==
    /\ running = NoTask
    /\ tasks[t].pc = "pull_dm"
    /\ views' = views \cup {View("confirm", tasks[t].target, tasks[t].room)}
    /\ tasks' = [tasks EXCEPT ![t].pc = "button_reply"]
    /\ UNCHANGED <<dicts, locks, running, env, group_info, broadcast_messages,
                   ads, ad_next, ops>>

\* ConfirmRemoveView.no_button: the prompt is edited and the entry is kept
ConfirmNo(t, v, r) ==
    /\ running = NoTask
    /\ FreeSlot(t)
    /\ View("confirm", v, r) \in views
    /\ views' = views \ {View("confirm", v, r)}
    /\ tasks' = [tasks EXCEPT ![t] = [Idle EXCEPT !.op = "confirm_no",
                     !.pc = "button_reply", !.room = r, !.target = v,
                     !.result = "kept"]]
    /\ UNCHANGED <<dicts, locks, running, env, group_info, broadcast_messages,
                   ads, ad_next, ops>>

\* ------------------------------------------------ GroupInfoModal.on_submit

GroupInfo(lo, hi) == [min_level |-> lo, max_level |-> hi]

\* min_val and not min_val.isdigit(), max_val and not max_val.isdigit()
GroupInfoValid(info) ==
    /\ info.min_level = <<>> \/ StrIsDigit(info.min_level)
    /\ info.max_level = <<>> \/ StrIsDigit(info.max_level)

\* the modal is submitted: the handler starts and awaits response.defer
GroupInfoSubmit(t, u, r, lo, hi) ==
    /\ running = NoTask
    /\ FreeSlot(t)
    /\ ops < MaxOps
    /\ View("group_info", u, r) \in views
    /\ views' = views \ {View("group_info", u, r)}
    /\ tasks' = [tasks EXCEPT ![t] = [Idle EXCEPT !.op = "group_info_submit",
                     !.pc = "gi_defer", !.room = r, !.user = u,
                     !.info = GroupInfo(StrStrip(lo), StrStrip(hi))]]
    /\ ops' = ops + 1
    /\ UNCHANGED <<dicts, locks, running, env, group_info, broadcast_messages,
                   ads, ad_next>>

\* defer returned: the levels are checked, group_info[channel_id] = info, and
\* the display is rendered
GroupInfoStore(t) ==
    /\ running = NoTask
    /\ tasks[t].pc = "gi_defer"
    /\ LET r == tasks[t].room
           ok == GroupInfoValid(tasks[t].info)
       IN  /\ group_info' = IF ok THEN Put(group_info, r, tasks[t].info) ELSE group_info
           /\ tasks' = [tasks EXCEPT ![t] = [@ EXCEPT
                  !.result = IF ok THEN "updated" ELSE "ValidationError",
                  !.pc = IF ok /\ r \in channels THEN "uqm_entry" ELSE "button_reply",
                  !.stack = IF ok /\ r \in channels THEN <<"effect_after">> ELSE <<>>]]
           /\ running' = IF ok /\ r \in channels THEN t ELSE NoTask
    /\ UNCHANGED <<dicts, locks, env, broadcast_messages, ads, ad_next, views, ops>>

\* update_queue_message returned: the confirmation is sent
EffectAfterRender(t) ==
    /\ running = t
    /\ tasks[t].pc = "effect_after"
    /\ tasks' = [tasks EXCEPT ![t].pc = "button_reply"]
    /\ running' = NoTask
    /\ UNCHANGED <<dicts, locks, env, more, ops>>

\* ------------------------------------------------------ HostSelect.callback

\* a member is selected: queue_hosts[channel_id] = new_host_id, then the render
HostSelectPick(t, u, r, v) ==
    /\ running = NoTask
    /\ FreeSlot(t)
    /\ ops < MaxOps
    /\ View("change_host", u, r) \in views
    /\ views' = views \ {View("change_host", u, r)}
    /\ queue_hosts' = IF v \in members THEN Put(queue_hosts, r, v) ELSE queue_hosts
    /\ LET render == v \in members /\ r \in channels
       IN  /\ tasks' = [tasks EXCEPT ![t] = [Idle EXCEPT !.op = "host_select",
                            !.room = r, !.user = u,
                            !.result = IF v \in members THEN "changed" ELSE "no_member",
                            !.pc = IF render THEN "uqm_entry" ELSE "button_reply",
                            !.stack = IF render THEN <<"effect_after">> ELSE <<>>]]
           /\ running' = IF render THEN t ELSE NoTask
    /\ ops' = ops + 1
    /\ UNCHANGED <<queues, queue_messages, notified_next, queue_locks,
                   queue_last_active, locks, env, group_info, broadcast_messages,
                   ads, ad_next>>

\* ------------------------------------------- BroadcastClassSelect.callback

\* the live advertisements of room r on the broadcast channel
LiveAds(r) == {id \in DOMAIN ads : ads[id].room = r /\ ads[id].live}

\* classes are selected: the old advertisement ids of the room are copied
BcStart(t, u, r) ==
    /\ running = NoTask
    /\ FreeSlot(t)
    /\ ops < MaxOps
    /\ View("broadcast", u, r) \in views
    /\ tasks' = [tasks EXCEPT ![t] = [Idle EXCEPT !.op = "broadcast",
                     !.room = r, !.user = u,
                     !.pc = IF r \in channels THEN "bc_loop" ELSE "bc_reply",
                     !.result = IF r \in channels THEN "" ELSE "no_channel",
                     !.old = Get(broadcast_messages, r, <<>>),
                     !.keys = Get(broadcast_messages, r, <<>>)]]
    /\ running' = IF r \in channels THEN t ELSE NoTask
    /\ ops' = ops + 1
    /\ UNCHANGED <<dicts, locks, env, more>>

\* for msg_id in old_broadcast_ids: fetch_message is awaited
BcNext(t) ==
    /\ running = t
    /\ tasks[t].pc = "bc_loop"
    /\ tasks[t].keys # <<>>
    /\ tasks' = [tasks EXCEPT ![t].pc = "bc_fetch"]
    /\ running' = NoTask
    /\ UNCHANGED <<dicts, locks, env, more, ops>>

\* the old advertisement is gone: NotFound, next id
BcFetchNotFound(t) ==
    /\ running = NoTask
    /\ tasks[t].pc = "bc_fetch"
    /\ ~ads[Head(tasks[t].keys)].live
    /\ tasks' = [tasks EXCEPT ![t].pc = "bc_loop", ![t].keys = Tail(@)]
    /\ running' = t
    /\ UNCHANGED <<dicts, locks, env, more, ops>>

\* the old advertisement was fetched and its delete is awaited
BcDelete(t) ==
    /\ running = NoTask
    /\ tasks[t].pc = "bc_fetch"
    /\ ads[Head(tasks[t].keys)].live
    /\ ads' = [ads EXCEPT ![Head(tasks[t].keys)].live = FALSE]
    /\ tasks' = [tasks EXCEPT ![t].pc = "bc_delete"]
    /\ UNCHANGED <<dicts, locks, running, env, group_info, broadcast_messages,
                   ad_next, views, ops>>

\* the platform refuses the fetch or the delete: the error is logged
BcDeleteFails(t) ==
    /\ running = NoTask
    /\ tasks[t].pc = "bc_fetch"
    /\ ads[Head(tasks[t].keys)].live
    /\ tasks' = [tasks EXCEPT ![t].pc = "bc_delete"]
    /\ UNCHANGED <<dicts, locks, running, env, more, ops>>

\* the delete returned or raised: next id
BcDeleted(t) ==
    /\ running = NoTask
    /\ tasks[t].pc = "bc_delete"
    /\ tasks' = [tasks EXCEPT ![t].pc = "bc_loop", ![t].keys = Tail(@)]
    /\ running' = t
    /\ UNCHANGED <<dicts, locks, env, more, ops>>

\* every old id was tried: the new advertisement is sent
BcSend(t) ==
    /\ running = t
    /\ tasks[t].pc = "bc_loop"
    /\ tasks[t].keys = <<>>
    /\ ad_next' = ad_next + 1
    /\ ads' = Put(ads, ad_next + 1, [room |-> tasks[t].room, live |-> TRUE])
    /\ tasks' = [tasks EXCEPT ![t].pc = "bc_send", ![t].msg = ad_next + 1]
    /\ running' = NoTask
    /\ UNCHANGED <<dicts, locks, env, group_info, broadcast_messages, views, ops>>

\* send returned: broadcast_messages[vc_channel_id] = [msg.id]
NewTracked(old, id) == <<id>>

BcPosted(t) ==
    /\ running = NoTask
    /\ tasks[t].pc = "bc_send"
    /\ broadcast_messages' =
           Put(broadcast_messages, tasks[t].room,
               NewTracked(Get(broadcast_messages, tasks[t].room, <<>>), tasks[t].msg))
    /\ tasks' = [tasks EXCEPT ![t].pc = "bc_reply", ![t].result = "sent"]
    /\ UNCHANGED <<dicts, locks, running, env, group_info, ads, ad_next, views, ops>>

\* edit_message returned: the select is gone and the handler ends
BcReplied(t) ==
    /\ running = NoTask
    /\ tasks[t].pc = "bc_reply"
    /\ views' = views \ {View("broadcast", tasks[t].user, tasks[t].room)}
    /\ tasks' = [tasks EXCEPT ![t] = Idle]
    /\ UNCHANGED <<dicts, locks, running, env, group_info, broadcast_messages,
                   ads, ad_next, ops>>

\* ----------------------------------------- cleanup_orphaned_broadcasts

\* broadcast_channel.history: the advertisements on the channel, newest first
History ==
    LET live == {id \in DOMAIN ads : ads[id].live}
    IN  CHOOSE s \in [1..Cardinality(live) -> live] :
            \A i, j \in 1..Cardinality(live) : i < j => s[i] > s[j]

\* msg_ids.remove(message.id)
WithoutId(msg_ids, id) == SelectSeq(msg_ids, LAMBDA m : m # id)

\* the rooms whose tracked ids hold the message
TrackedUnder(id) == {r \in DOMAIN broadcast_messages :
                        id \in SeqToSet(broadcast_messages[r])}

\* vc is None or vc_id not in queues
NoChannel(r) == r \notin channels
Orphaned(r) == r \notin channels \/ r \notin DOMAIN queues

\* the sweep starts: the history of the broadcast channel is requested
CobStart(t) ==
    /\ running = NoTask
    /\ FreeSlot(t)
    /\ \A s \in Tasks : tasks[s].op # "cob"
    /\ tasks' = [tasks EXCEPT ![t] = [Idle EXCEPT !.op = "cob", !.pc = "cob_history"]]
    /\ UNCHANGED <<dicts, locks, running, env, more, ops>>

\* the history was read: the bot's advertisements are collected
CobHistory(t) ==
    /\ running = NoTask
    /\ tasks[t].pc = "cob_history"
    /\ tasks' = [tasks EXCEPT ![t].pc = "cob_loop", ![t].keys = History]
    /\ running' = t
    /\ UNCHANGED <<dicts, locks, env, more, ops>>

\* for message in messages: a tracked id of an orphaned room is untracked and
\* the message deleted; a message that is not to be deleted by its tracking
\* is judged by the room its embed mentions
CobNext(t) ==
    /\ running = t
    /\ tasks[t].pc = "cob_loop"
    /\ tasks[t].keys # <<>>
    /\ LET id == Head(tasks[t].keys)
           under == TrackedUnder(id)
           vc_id == IF under = {} THEN 0 ELSE CHOOSE r \in under : TRUE
           by_tracking == under # {} /\ Orphaned(vc_id)
           should_delete == by_tracking \/ Orphaned(ads[id].room)
           rest == IF by_tracking THEN WithoutId(broadcast_messages[vc_id], id)
                   ELSE <<>>
       IN  /\ broadcast_messages' =
                  IF ~by_tracking THEN broadcast_messages
                  ELSE IF rest = <<>> THEN Pop(broadcast_messages, vc_id)
                  ELSE Put(broadcast_messages, vc_id, rest)
           /\ tasks' = [tasks EXCEPT ![t] = [@ EXCEPT
                  !.pc = IF should_delete THEN "cob_delete" ELSE "cob_loop",
                  !.msg = id,
                  !.result = IF by_tracking THEN "tracked"
                             ELSE IF should_delete THEN "mentioned" ELSE "kept",
                  !.keys = IF should_delete THEN @ ELSE Tail(@)]]
           /\ running' = IF should_delete THEN NoTask ELSE t
    /\ UNCHANGED <<dicts, locks, env, group_info, ads, ad_next, views, ops>>

\* message.delete returned, or raised and the error was passed or logged
CobDeleted(t, ok) ==
    /\ running = NoTask
    /\ tasks[t].pc = "cob_delete"
    /\ ads' = IF ok THEN [ads EXCEPT ![tasks[t].msg].live = FALSE] ELSE ads
    /\ tasks' = [tasks EXCEPT ![t].pc = "cob_loop", ![t].keys = Tail(@)]
    /\ running' = t
    /\ UNCHANGED <<dicts, locks, env, group_info, broadcast_messages, ad_next,
                   views, ops>>

\* every message was handled: the sweep ends
CobDone(t) ==
    /\ running = t
    /\ tasks[t].pc = "cob_loop"
    /\ tasks[t].keys = <<>>
    /\ tasks' = [tasks EXCEPT ![t] = Idle]
    /\ running' = NoTask
    /\ UNCHANGED <<dicts, locks, env, more, ops>>

\* ------------------------------------------- rooms: creation and start

\* the eight maps keyed by room id
PerRoomMaps == <<queues, queue_messages, queue_hosts, group_info, notified_next,
                 broadcast_messages, queue_locks, queue_last_active>>

NoKey(r) == \A i \in 1..Len(PerRoomMaps) : r \notin DOMAIN PerRoomMaps[i]

\* on_guild_channel_create: a voice channel appears and the prompt with the
\* StartQueueView is posted in it; a channel id is never used again
ChannelCreated(r) ==
    /\ running = NoTask
    /\ r \notin channels
    /\ PromptMsg(r) \notin display_live
    /\ NoKey(r)
    /\ \A t \in Tasks : tasks[t].room # r
    /\ \A v \in views : v.room # r
    /\ \A id \in DOMAIN ads : ads[id].room # r
    /\ channels' = channels \cup {r}
    /\ display_live' = display_live \cup {PromptMsg(r)}
    /\ views' = views \cup {View("start", NoUser, r)}
    /\ UNCHANGED <<dicts, locks, tasks, running, members, voice, dm_blocked, now,
                   group_info, broadcast_messages, ads, ad_next, ops>>

\* StartQueueView.yes_button up to the await of edit_message, which puts the
\* QueueView in place of the prompt's buttons
HostUnset(hosts, r, u) == hosts
StartHosts(hosts, r, u) == Put(hosts, r, u)

StartYes(t, u, r) ==
    /\ running = NoTask
    /\ FreeSlot(t)
    /\ ops < MaxOps
    /\ u \in members
    /\ View("start", NoUser, r) \in views
    /\ queue_hosts' = StartHosts(queue_hosts, r, u)
    /\ queues' = IF r \in DOMAIN queues THEN queues ELSE Put(queues, r, <<>>)
    /\ queue_last_active' = Put(queue_last_active, r, now)
    /\ views' = views \ {View("start", NoUser, r)}
    /\ tasks' = [tasks EXCEPT ![t] = [Idle EXCEPT !.op = "start", !.pc = "start_edit",
                     !.room = r, !.user = u, !.msg = PromptMsg(r)]]
    /\ ops' = ops + 1
    /\ UNCHANGED <<queue_messages, notified_next, queue_locks, locks, running, env,
                   group_info, broadcast_messages, ads, ad_next>>

\* edit_message returned: queue_messages[channel.id] = interaction.message.id,
\* then the channel is renamed and the handler ends
StartEdited(t) ==
    /\ running = NoTask
    /\ tasks[t].pc = "start_edit"
    /\ queue_messages' = Put(queue_messages, tasks[t].room, tasks[t].msg)
    /\ tasks' = [tasks EXCEPT ![t] = Idle]
    /\ UNCHANGED <<queues, queue_hosts, notified_next, queue_locks,
                   queue_last_active, locks, running, env, more, ops>>

\* ------------------------------------------------ cleanup_inactive_queues

\* (current_time - last_active) > timedelta(days=7)
ExpiredAtSeven(last_active, current_time) == current_time - last_active >= SEVEN_DAYS
Expired(last_active, current_time) == current_time - last_active > SEVEN_DAYS

\* the first loop: the channel ids that go to channels_to_remove
RECURSIVE ChannelsToRemove(_)
ChannelsToRemove(ids) ==
    IF ids = <<>> THEN <<>>
    ELSE LET channel_id == Head(ids)
             rest == ChannelsToRemove(Tail(ids))
         IN  IF channel_id \notin channels THEN <<channel_id>> \o rest
             ELSE IF /\ channel_id \in DOMAIN queue_last_active
                     /\ Expired(queue_last_active[channel_id], now)
                  THEN <<channel_id>> \o rest
             ELSE rest

\* d.pop(channel_id, None) for every channel id of the list
RECURSIVE PopAll(_, _)
PopAll(d, ids) == IF ids = <<>> THEN d ELSE PopAll(Pop(d, Head(ids)), Tail(ids))

\* one run of cleanup_inactive_queues; it has no await
ReaperSweep ==
    /\ running = NoTask
    /\ LET channels_to_remove == ChannelsToRemove(KeysOf(queues))
       IN  /\ queues' = PopAll(queues, channels_to_remove)
           /\ queue_messages' = PopAll(queue_messages, channels_to_remove)
           /\ queue_hosts' = PopAll(queue_hosts, channels_to_remove)
           /\ notified_next' = PopAll(notified_next, channels_to_remove)
           /\ group_info' = PopAll(group_info, channels_to_remove)
           /\ queue_locks' = PopAll(queue_locks, channels_to_remove)
           /\ queue_last_active' = PopAll(queue_last_active, channels_to_remove)
           /\ broadcast_messages' = PopAll(broadcast_messages, channels_to_remove)
    /\ UNCHANGED <<locks, tasks, running, env, ads, ad_next, views, ops>>

\* a day passes
TimePasses ==
    /\ running = NoTask
    /\ now < MaxDays
    /\ now' = now + 1
    /\ UNCHANGED <<dicts, locks, tasks, running, members, voice, channels,
                   display_live, dm_blocked, more, ops>>

\* more than the expiry period passes at once, no handler being in flight
WeekPasses ==
    /\ running = NoTask
    /\ \A t \in Tasks : tasks[t].op = "idle"
    /\ now + MaxDays <= MaxDays
    /\ now' = now + MaxDays
    /\ UNCHANGED <<dicts, locks, tasks, running, members, voice, channels,
                   display_live, dm_blocked, more, ops>>

\* ------------------------------------------------ on_guild_channel_delete

HasRoomState(r) ==
    r \in DOMAIN queues \/ r \in DOMAIN queue_messages \/ r \in DOMAIN queue_hosts

\* the members of the guild among the entries still to be notified
Notifiable(entries) == SelectSeq(entries, LAMBDA e : e.user_id \in members)

\* the voice channel is deleted with everything posted in it; the handler
\* copies the entries and pops the tracked advertisements
ChannelDeleted(t, r) ==
    /\ running = NoTask
    /\ FreeSlot(t)
    /\ ops < MaxOps
    /\ r \in channels
    /\ channels' = channels \ {r}
    /\ display_live' = display_live \ {PromptMsg(r)}
    /\ voice' = [voice EXCEPT ![r] = <<>>]
    /\ views' = {v \in views : v.room # r \/ v.kind = "broadcast"}
    /\ ops' = ops + 1
    /\ IF HasRoomState(r)
       THEN /\ tasks' = [tasks EXCEPT ![t] = [Idle EXCEPT !.op = "teardown",
                             !.pc = "td_loop", !.room = r,
                             !.old = EntriesOf(queues, r),
                             !.keys = Get(broadcast_messages, r, <<>>)]]
            /\ broadcast_messages' = Pop(broadcast_messages, r)
            /\ running' = t
       ELSE UNCHANGED <<tasks, broadcast_messages, running>>
    /\ UNCHANGED <<dicts, locks, members, dm_blocked, now, group_info, ads, ad_next>>

\* for mid in ids: fetch_message is awaited
TdAdNext(t) ==
    /\ running = t
    /\ tasks[t].pc = "td_loop"
    /\ tasks[t].keys # <<>>
    /\ tasks' = [tasks EXCEPT ![t].pc = "td_fetch"]
    /\ running' = NoTask
    /\ UNCHANGED <<dicts, locks, env, more, ops>>

\* the advertisement is deleted, is already gone, or the platform refuses
TdAdDone(t, ok) ==
    /\ running = NoTask
    /\ tasks[t].pc = "td_fetch"
    /\ ads' = IF ok THEN [ads EXCEPT ![Head(tasks[t].keys)].live = FALSE] ELSE ads
    /\ tasks' = [tasks EXCEPT ![t].pc = "td_loop", ![t].keys = Tail(@)]
    /\ running' = t
    /\ UNCHANGED <<dicts, locks, env, group_info, broadcast_messages, ad_next,
                   views, ops>>

\* for entry in queued_entries: entries of users who left the guild are
\* skipped, create_dm is awaited for the next member
TdDmSend(t) ==
    /\ running = t
    /\ tasks[t].pc = "td_loop"
    /\ tasks[t].keys = <<>>
    /\ Notifiable(tasks[t].old) # <<>>
    /\ tasks' = [tasks EXCEPT ![t].pc = "td_dm",
                     ![t].old = Notifiable(tasks[t].old),
                     ![t].told = @ \cup {Head(Notifiable(tasks[t].old)).user_id}]
    /\ running' = NoTask
    /\ UNCHANGED <<dicts, locks, env, more, ops>>

\* the message was sent or refused
TdDmDone(t) ==
    /\ running = NoTask
    /\ tasks[t].pc = "td_dm"
    /\ tasks' = [tasks EXCEPT ![t].pc = "td_loop", ![t].old = Tail(@)]
    /\ running' = t
    /\ UNCHANGED <<dicts, locks, env, more, ops>>

\* the loops are over: the room's state is popped and the handler ends
TdPurge(t) ==
    /\ running = t
    /\ tasks[t].pc = "td_loop"
    /\ tasks[t].keys = <<>>
    /\ Notifiable(tasks[t].old) = <<>>
    /\ LET r == tasks[t].room
       IN  /\ queues' = Pop(queues, r)
           /\ queue_messages' = Pop(queue_messages, r)
           /\ queue_hosts' = Pop(queue_hosts, r)
           /\ notified_next' = Pop(notified_next, r)
           /\ group_info' = Pop(group_info, r)
           /\ queue_locks' = Pop(queue_locks, r)
           /\ queue_last_active' = Pop(queue_last_active, r)
    /\ tasks' = [tasks EXCEPT ![t] = Idle]
    /\ running' = NoTask
    /\ UNCHANGED <<locks, env, broadcast_messages, ads, ad_next, views, ops>>

\* ------------------------------------------------------------ environment

\* the display message is deleted on the platform
DisplayDeleted(m) ==
    /\ running = NoTask
    /\ m \in display_live
    /\ display_live' = display_live \ {m}
    /\ UNCHANGED <<dicts, locks, tasks, running, members, voice, channels,
                   dm_blocked, more, now, ops>>

\* a member connects to a voice channel
VoiceJoin(u, r) ==
    /\ running = NoTask
    /\ u \in members
    /\ r \in channels
    /\ \A c \in RoomIds : \A i \in 1..Len(voice[c]) : voice[c][i] # u
    /\ voice' = [voice EXCEPT ![r] = Append(@, u)]
    /\ UNCHANGED <<dicts, locks, tasks, running, members, channels, display_live,
                   dm_blocked, more, now, ops>>

\* a member disconnects from a voice channel
VoiceLeave(u, r) ==
    /\ running = NoTask
    /\ \E i \in 1..Len(voice[r]) : voice[r][i] = u
    /\ voice' = [voice EXCEPT ![r] = SelectSeq(@, LAMBDA x : x # u)]
    /\ UNCHANGED <<dicts, locks, tasks, running, members, channels, display_live,
                   dm_blocked, more, now, ops>>

\* ---------------------------------------------------------- observers

\* deliveries of the 'next in queue' DM to the head, counted while the head
\* stays the same user
ObserveDms ==
    next_dms' = [r \in RoomIds |->
        IF HeadOf(queues', r) # HeadOf(queues, r) THEN 0
        ELSE IF \E t \in Tasks :
                   /\ tasks[t].pc = "notify_dm"
                   /\ tasks'[t].pc # "notify_dm"
                   /\ tasks[t].room = r
                   /\ tasks[t].first = HeadOf(queues, r)
                   /\ CanDeliver(tasks[t].first)
             THEN next_dms[r] + 1
             ELSE next_dms[r]]

\* u is ahead of v in the entries
Ahead(entries, u, v) ==
    \E i \in 1..Len(entries) :
        /\ entries[i].user_id = u
        /\ \E j \in (i + 1)..Len(entries) : entries[j].user_id = v

\* the orders seen so far in the room's waitlist; a new lifetime starts when
\* the room's key leaves queues
ObserveOrder ==
    order_seen' = [r \in RoomIds |->
        IF r \notin DOMAIN queues' THEN {}
        ELSE order_seen[r] \cup
             {p \in Users \X Users : Ahead(queues'[r], p[1], p[2])}]

\* the labels inside notify_next_in_queue
GatePcs == {"notify_entry", "notify_wait", "notify_cs", "notify_dm"}
NoRun == [n |-> 0, removed |-> 0]

\* a call from update_queue_message starts a run with the waitlist as it is,
\* a step out of the removal section counts as a removal, the return ends the
\* run
ObserveGate ==
    gate_runs' = [t \in Tasks |->
        IF tasks'[t].pc \notin GatePcs THEN NoRun
        ELSE IF tasks[t].pc \notin GatePcs
             THEN [n |-> Len(EntriesOf(queues', tasks'[t].room)), removed |-> 0]
        ELSE IF tasks[t].pc = "notify_cs" /\ tasks'[t].pc # "notify_cs"
             THEN [gate_runs[t] EXCEPT !.removed = @ + 1]
        ELSE gate_runs[t]]

\* the Joins that reported 'joined', their users, the Leaves that reported
\* 'removed'
ObserveCounts ==
    LET joins(r) == {t \in Tasks : /\ running = t
                                   /\ tasks[t].pc = "join_cs"
                                   /\ tasks[t].room = r
                                   /\ tasks'[t].result = "joined"}
        left(r) == {t \in Tasks : /\ running = t
                                  /\ tasks[t].pc = "leave_cs"
                                  /\ tasks[t].room = r
                                  /\ tasks'[t].result = "removed"}
    IN  /\ joined' = [r \in RoomIds |->
               joined[r] \cup {tasks[t].user : t \in joins(r)}]
        /\ appends' = [r \in RoomIds |-> appends[r] + Cardinality(joins(r))]
        /\ leaves' = [r \in RoomIds |-> leaves[r] + Cardinality(left(r))]

\* ------------------------------------------------------------------- Init

\* members that never act: the rest of a busy waitlist, and a host
Fillers == (NumUsers + 1)..(NumUsers + MAX_QUEUE_SIZE - 1)
PassiveHost == NumUsers + MAX_QUEUE_SIZE

\* a full waitlist: user 1 and the fillers
BusyQueue ==
    [i \in 1..MAX_QUEUE_SIZE |->
        Entry(IF i = 1 THEN 1 ELSE NumUsers + i - 1, Tank, <<"1">>)]

InitRuntime ==
    /\ locks = [l \in LockIds |-> FreeLock]
    /\ tasks = [t \in Tasks |-> Idle]
    /\ running = NoTask
    /\ ops = 0
    /\ group_info = EmptyDict
    /\ broadcast_messages = EmptyDict
    /\ ads = EmptyDict
    /\ ad_next = 0
    /\ views = {}
    /\ next_dms = [r \in RoomIds |-> 0]
    /\ order_seen = [r \in RoomIds |->
           {p \in Users \X Users : Ahead(EntriesOf(queues, r), p[1], p[2])}]
    /\ joined = [r \in RoomIds |-> {}]
    /\ appends = [r \in RoomIds |-> 0]
    /\ leaves = [r \in RoomIds |-> 0]
    /\ gate_runs = [t \in Tasks |-> NoRun]

InitGuild ==
    /\ members = Users \cup Fillers \cup {PassiveHost}
    /\ channels = {1}
    /\ display_live = {PromptMsg(1)}
    /\ dm_blocked = {NumUsers}
    /\ now = 0

InitEnv == InitGuild /\ voice = [r \in RoomIds |-> <<>>]

\* room 1 right after StartQueueView.yes_button
InitFresh ==
    /\ queues = Put(EmptyDict, 1, <<>>)
    /\ queue_messages = Put(EmptyDict, 1, PromptMsg(1))
    /\ queue_hosts = Put(EmptyDict, 1, PassiveHost)
    /\ notified_next = EmptyDict
    /\ queue_locks = EmptyDict
    /\ queue_last_active = Put(EmptyDict, 1, 0)

\* room 1 with a full waitlist and the head notified
InitBusy ==
    /\ queues = Put(EmptyDict, 1, BusyQueue)
    /\ queue_messages = Put(EmptyDict, 1, PromptMsg(1))
    /\ queue_hosts = Put(EmptyDict, 1, PassiveHost)
    /\ notified_next = Put(EmptyDict, 1, 1)
    /\ queue_locks = Put(EmptyDict, 1, 1)
    /\ queue_last_active = Put(EmptyDict, 1, 0)

\* room 1 with users 1 and 2 waiting and the head notified
InitPair ==
    /\ queues = Put(EmptyDict, 1, <<Entry(1, Tank, <<"1">>), Entry(2, Tank, <<"1">>)>>)
    /\ queue_messages = Put(EmptyDict, 1, PromptMsg(1))
    /\ queue_hosts = Put(EmptyDict, 1, PassiveHost)
    /\ notified_next = Put(EmptyDict, 1, 1)
    /\ queue_locks = Put(EmptyDict, 1, 1)
    /\ queue_last_active = Put(EmptyDict, 1, 0)

\* room 1 right after StartQueueView.yes_button by user 1, who is connected
InitHosted ==
    /\ queues = Put(EmptyDict, 1, <<>>)
    /\ queue_messages = Put(EmptyDict, 1, PromptMsg(1))
    /\ queue_hosts = Put(EmptyDict, 1, 1)
    /\ notified_next = EmptyDict
    /\ queue_locks = EmptyDict
    /\ queue_last_active = Put(EmptyDict, 1, 0)
    /\ voice = [r \in RoomIds |-> IF r = 1 THEN <<1>> ELSE <<>>]

Init == InitFresh /\ InitEnv /\ InitRuntime
InitCap == InitBusy /\ InitEnv /\ InitRuntime
InitOrder == InitPair /\ InitEnv /\ InitRuntime
InitHost == InitHosted /\ InitGuild /\ InitRuntime

\* room 1 has a host and nothing else: the Reaper purged the room and a host
\* selection shown before the purge was applied after it
InitHostOnly ==
    /\ queues = EmptyDict
    /\ queue_messages = EmptyDict
    /\ queue_hosts = Put(EmptyDict, 1, 1)
    /\ notified_next = EmptyDict
    /\ queue_locks = EmptyDict
    /\ queue_last_active = EmptyDict
    /\ voice = [r \in RoomIds |-> IF r = 1 THEN <<1>> ELSE <<>>]

\* room 1 hosted by user 1, who is connected, with user 2 waiting and notified
InitServed ==
    /\ queues = Put(EmptyDict, 1, <<Entry(2, Tank, <<"1">>)>>)
    /\ queue_messages = Put(EmptyDict, 1, PromptMsg(1))
    /\ queue_hosts = Put(EmptyDict, 1, 1)
    /\ notified_next = Put(EmptyDict, 1, 2)
    /\ queue_locks = Put(EmptyDict, 1, 1)
    /\ queue_last_active = Put(EmptyDict, 1, 0)
    /\ voice = [r \in RoomIds |-> IF r = 1 THEN <<1>> ELSE <<>>]

InitTeardown == InitServed /\ InitGuild /\ InitRuntime

\* room 1 after reassign_host_if_needed found nobody connected: no host
InitUnhosted ==
    /\ queues = Put(EmptyDict, 1, <<>>)
    /\ queue_messages = Put(EmptyDict, 1, PromptMsg(1))
    /\ queue_hosts = EmptyDict
    /\ notified_next = EmptyDict
    /\ queue_locks = EmptyDict
    /\ queue_last_active = Put(EmptyDict, 1, 0)
    /\ voice = [r \in RoomIds |-> <<>>]

\* rooms 1 and 2, both with user 1 waiting and notified
InitBothQueued ==
    /\ queues = [r \in RoomIds |-> <<Entry(1, Tank, <<"1">>)>>]
    /\ queue_messages = [r \in RoomIds |-> PromptMsg(r)]
    /\ queue_hosts = [r \in RoomIds |-> PassiveHost]
    /\ notified_next = [r \in RoomIds |-> 1]
    /\ queue_locks = EmptyDict
    /\ queue_last_active = [r \in RoomIds |-> 0]

\* every room has its voice channel and its display
InitTown ==
    /\ members = Users \cup Fillers \cup {PassiveHost}
    /\ channels = RoomIds
    /\ display_live = {PromptMsg(r) : r \in RoomIds}
    /\ dm_blocked = {NumUsers}
    /\ now = 0
    /\ voice = [r \in RoomIds |-> <<>>]

InitRemove == InitBothQueued /\ InitTown /\ InitRuntime

InitAuth == (InitHosted \/ InitUnhosted) /\ InitGuild /\ InitRuntime

InitFailover == (InitHosted \/ InitHostOnly) /\ InitGuild /\ InitRuntime

\* the inputs of a Join in the waitlist scenarios
JoinInputs == {<<StrLower(Tank), <<"5","0">>>>, <<Mage, <<"1","2">>>>}

\* the class and level texts of a Join in the validation scenario
RoleInputs ==
    {Tank, StrLower(Tank), <<"T","A","N","K">>, <<" ","t","a","n","k"," ">>,
     <<"m","A","G","E">>, <<"T","a","n">>, <<"T","a","n","k","s">>, <<>>}
LevelInputs ==
    {<<"1">>, <<"9","9","9","9">>, <<" ","1","2"," ">>, <<"0","0","7">>,
     <<"0">>, <<"1","0","0","0","0">>, <<"-","1">>, <<"1","a">>, <<>>,
     <<"sup2">>, <<"1","sup2">>}

\* the members that connect to voice channels in the host scenario
VoiceUsers == Users \cup {PassiveHost}

\* ------------------------------------------------------------------- Next

\* what a step of the queue engine does to the observers
Observed ==
    ObserveDms /\ ObserveOrder /\ UNCHANGED <<joined, appends, leaves, gate_runs>>

\* the steps of the queue engine that every waitlist can take
Core ==
    \/ \E t \in Tasks, u \in Users, r \in RoomIds, in \in JoinInputs :
           JoinSubmit(t, u, r, in[1], in[2]) /\ Observed
    \/ \E t \in Tasks : JoinAcquire(t) /\ Observed
    \/ \E t \in Tasks : JoinCommit(t) /\ Observed
    \/ \E t \in Tasks : JoinAfterRender(t) /\ Observed
    \/ \E t \in Tasks : JoinReplied(t) /\ Observed
    \/ \E t \in Tasks : UqmEntry(t) /\ Observed
    \/ \E t \in Tasks : UqmFetched(t) /\ Observed
    \/ \E t \in Tasks : UqmNotFound(t) /\ Observed
    \/ \E t \in Tasks : UqmEdited(t) /\ Observed
    \/ \E t \in Tasks : NotifyAlready(t) /\ Observed
    \/ \E t \in Tasks : NotifySend(t) /\ Observed
    \/ \E t \in Tasks : NotifyDmDone(t) /\ Observed
    \/ \E t \in Tasks, u \in Users, r \in RoomIds : LeaveClick(t, u, r) /\ Observed
    \/ \E t \in Tasks : LeaveCS(t) /\ Observed
    \/ \E t \in Tasks : LeaveReplied(t) /\ Observed
    \/ \E t \in Tasks, u \in Users, r \in RoomIds : LeaveAdClick(t, u, r) /\ Observed
    \/ \E t \in Tasks : LeaveAdCS(t) /\ Observed
    \/ \E t \in Tasks : LeaveAdAfter(t) /\ Observed
    \/ \E t \in Tasks : LeaveAdReplied(t) /\ Observed
    \/ \E t \in Tasks, v \in Users, r \in RoomIds : ConfirmYes(t, v, r) /\ Observed
    \/ \E t \in Tasks : ConfirmCS(t) /\ Observed
    \/ \E t \in Tasks : ConfirmAfter(t) /\ Observed
    \/ \E t \in Tasks : ConfirmReplied(t) /\ Observed
    \/ \E t \in Tasks, u \in Users : MemberLeaves(t, u) /\ Observed
    \/ \E t \in Tasks : OmrStart(t) /\ Observed
    \/ \E t \in Tasks : OmrNext(t) /\ Observed
    \/ \E t \in Tasks : OmrCS(t) /\ Observed
    \/ \E t \in Tasks : OmrRender(t) /\ Observed
    \/ \E t \in Tasks : OmrDone(t) /\ Observed
    \/ \E m \in RoomIds : DisplayDeleted(PromptMsg(m)) /\ Observed

\* a waitlist of a few members is never full, so no lock is ever held across
\* an await and none is waited for
Next ==
    \/ Core
    \/ \E t \in Tasks : NotifyEmpty(t) /\ Observed
    \/ \E t \in Tasks : NotifyUnreachable(t) /\ Observed
    \/ \E t \in Tasks : NotifyRemove(t) /\ Observed

\* a waitlist at capacity never empties, and its head stays a member
NextCap ==
    \/ Core
    \/ \E t \in Tasks : JoinFull(t) /\ Observed
    \/ \E t \in Tasks : JoinFullSent(t) /\ Observed
    \/ \E t \in Tasks : LockGranted(t) /\ Observed

Spec == Init /\ [][Next]_vars

SpecCap == InitCap /\ [][NextCap]_vars

SpecOrder == InitOrder /\ [][Next]_vars

\* what a step of the Join and Leave scenario does to the observers
Counted == ObserveCounts /\ UNCHANGED <<next_dms, order_seen, gate_runs>>

\* Joins and Leaves on a waitlist of members, with their renders
NextCount ==
    \/ \E t \in Tasks, u \in Users, in \in JoinInputs :
            JoinSubmit(t, u, 1, in[1], in[2]) /\ Counted
    \/ \E t \in Tasks : JoinAcquire(t) /\ Counted
    \/ \E t \in Tasks : JoinCommit(t) /\ Counted
    \/ \E t \in Tasks : JoinAfterRender(t) /\ Counted
    \/ \E t \in Tasks : JoinReplied(t) /\ Counted
    \/ \E t \in Tasks, u \in Users : LeaveClick(t, u, 1) /\ Counted
    \/ \E t \in Tasks : LeaveCS(t) /\ Counted
    \/ \E t \in Tasks : LeaveReplied(t) /\ Counted
    \/ \E t \in Tasks, u \in Users : LeaveAdClick(t, u, 1) /\ Counted
    \/ \E t \in Tasks : LeaveAdCS(t) /\ Counted
    \/ \E t \in Tasks : LeaveAdAfter(t) /\ Counted
    \/ \E t \in Tasks : LeaveAdReplied(t) /\ Counted
    \/ \E t \in Tasks : UqmEntry(t) /\ Counted
    \/ \E t \in Tasks : UqmFetched(t) /\ Counted
    \/ \E t \in Tasks : UqmEdited(t) /\ Counted
    \/ \E t \in Tasks : NotifyEmpty(t) /\ Counted
    \/ \E t \in Tasks : NotifyAlready(t) /\ Counted
    \/ \E t \in Tasks : NotifySend(t) /\ Counted
    \/ \E t \in Tasks : NotifyDmDone(t) /\ Counted

SpecCount == Init /\ [][NextCount]_vars

\* Joins with any of the input texts, one submission at a time
NextValidate ==
    \/ \E u \in Users, role \in RoleInputs, level \in LevelInputs :
            JoinSubmit(1, u, 1, role, level) /\ Observed
    \/ \E t \in Tasks : JoinRejectRole(t) /\ Observed
    \/ \E t \in Tasks : JoinRejectLevel(t) /\ Observed
    \/ \E t \in Tasks : JoinLevelRaises(t) /\ Observed
    \/ \E t \in Tasks : JoinAcquire(t) /\ Observed
    \/ \E t \in Tasks : JoinCommit(t) /\ Observed
    \/ \E t \in Tasks : JoinAfterRender(t) /\ Observed
    \/ \E t \in Tasks : JoinReplied(t) /\ Observed
    \/ \E t \in Tasks : UqmEntry(t) /\ Observed
    \/ \E t \in Tasks : UqmFetched(t) /\ Observed
    \/ \E t \in Tasks : UqmEdited(t) /\ Observed
    \/ \E t \in Tasks : NotifyAlready(t) /\ Observed
    \/ \E t \in Tasks : NotifySend(t) /\ Observed
    \/ \E t \in Tasks : NotifyDmDone(t) /\ Observed

SpecValidate == Init /\ [][NextValidate]_vars

\* members leave the guild and move between voice channels while the host
\* sweep runs
NextHost ==
    \/ \E t \in Tasks, u \in Users : MemberLeaves(t, u) /\ Observed
    \/ \E t \in Tasks : OmrStart(t) /\ Observed
    \/ \E t \in Tasks : OmrNext(t) /\ Observed
    \/ \E t \in Tasks : OmrCS(t) /\ Observed
    \/ \E t \in Tasks : OmrRender(t) /\ Observed
    \/ \E t \in Tasks : OmrDone(t) /\ Observed
    \/ \E t \in Tasks : CheckHostsTick(t) /\ Observed
    \/ \E t \in Tasks : ChNext(t) /\ Observed
    \/ \E t \in Tasks : ChDone(t) /\ Observed
    \/ \E t \in Tasks : ReassignNoop(t) /\ Observed
    \/ \E t \in Tasks : ReassignPick(t) /\ Observed
    \/ \E t \in Tasks : ReassignDmDone(t) /\ Observed
    \/ \E t \in Tasks : ReassignClear(t) /\ Observed
    \/ \E t \in Tasks : UqmEntry(t) /\ Observed
    \/ \E t \in Tasks : UqmFetched(t) /\ Observed
    \/ \E t \in Tasks : UqmNotFound(t) /\ Observed
    \/ \E t \in Tasks : UqmEdited(t) /\ Observed
    \/ \E t \in Tasks : NotifyEmpty(t) /\ Observed
    \/ \E m \in RoomIds : DisplayDeleted(PromptMsg(m)) /\ Observed
    \/ \E u \in VoiceUsers : VoiceJoin(u, 1) /\ Observed
    \/ \E u \in VoiceUsers : VoiceLeave(u, 1) /\ Observed

SpecHost == InitHost /\ [][NextHost]_vars

\* the steps of the handler or sweep in slot t, once it has started
HostStep(t) ==
    /\ \/ OmrStart(t) \/ OmrNext(t) \/ OmrCS(t) \/ OmrRender(t) \/ OmrDone(t)
       \/ ChNext(t) \/ ChDone(t)
       \/ ReassignNoop(t) \/ ReassignPick(t) \/ ReassignDmDone(t) \/ ReassignClear(t)
       \/ UqmEntry(t) \/ UqmFetched(t) \/ UqmNotFound(t) \/ UqmEdited(t)
       \/ NotifyEmpty(t)
    /\ Observed

\* the event loop runs every coroutine that is ready, platform calls return,
\* and the check_hosts loop keeps firing
HostFairness ==
    /\ \A t \in Tasks : WF_vars(HostStep(t))
    /\ WF_vars(\E t \in Tasks : CheckHostsTick(t) /\ Observed)

SpecFailover == InitFailover /\ [][NextHost]_vars /\ HostFairness

\* the steps of Broadcast after the classes were selected
BroadcastSteps ==
    \/ \E t \in Tasks : BcNext(t) /\ Observed
    \/ \E t \in Tasks : BcFetchNotFound(t) /\ Observed
    \/ \E t \in Tasks : BcDelete(t) /\ Observed
    \/ \E t \in Tasks : BcDeleted(t) /\ Observed
    \/ \E t \in Tasks : BcSend(t) /\ Observed
    \/ \E t \in Tasks : BcPosted(t) /\ Observed
    \/ \E t \in Tasks : BcReplied(t) /\ Observed

\* an advertisement is deleted by hand on the broadcast channel
AdDeleted(id) ==
    /\ running = NoTask
    /\ id \in DOMAIN ads
    /\ ads[id].live
    /\ ads' = [ads EXCEPT ![id].live = FALSE]
    /\ UNCHANGED <<dicts, locks, tasks, running, env, group_info,
                   broadcast_messages, ad_next, views, ops>>

\* the host broadcasts room 1, one Broadcast after the other, and the
\* platform may refuse a delete
NextAdsSeq ==
    \/ \E t \in Tasks : BcDeleteFails(t) /\ Observed
    \/ \E t \in Tasks, u \in Users : HostOnlyButton(t, u, 1, "broadcast") /\ Observed
    \/ \E t \in Tasks : ButtonReplied(t) /\ Observed
    \/ \E t \in Tasks, u \in Users :
           /\ \A s \in Tasks : tasks[s].op # "broadcast"
           /\ BcStart(t, u, 1)
           /\ Observed
    \/ \E id \in 1..MaxOps : AdDeleted(id) /\ Observed
    \/ BroadcastSteps

SpecAdsSeq == InitHost /\ [][NextAdsSeq]_vars

\* the host broadcasts room 1, Broadcasts may overlap, and the platform
\* carries out every delete
NextAds ==
    \/ \E t \in Tasks, u \in Users : HostOnlyButton(t, u, 1, "broadcast") /\ Observed
    \/ \E t \in Tasks : ButtonReplied(t) /\ Observed
    \/ \E t \in Tasks, u \in Users : BcStart(t, u, 1) /\ Observed
    \/ \E id \in 1..MaxOps : AdDeleted(id) /\ Observed
    \/ BroadcastSteps

SpecAds == InitHost /\ [][NextAds]_vars

\* room 1 is deleted while members join it and its host broadcasts it
NextTeardown ==
    \/ \E t \in Tasks, u \in Users :
           JoinSubmit(t, u, 1, StrLower(Tank), <<"5","0">>) /\ Observed
    \/ \E t \in Tasks : JoinAcquire(t) /\ Observed
    \/ \E t \in Tasks : JoinCommit(t) /\ Observed
    \/ \E t \in Tasks : JoinAfterRender(t) /\ Observed
    \/ \E t \in Tasks : JoinReplied(t) /\ Observed
    \/ \E t \in Tasks : UqmEntry(t) /\ Observed
    \/ \E t \in Tasks : UqmFetched(t) /\ Observed
    \/ \E t \in Tasks : UqmNotFound(t) /\ Observed
    \/ \E t \in Tasks : UqmEdited(t) /\ Observed
    \/ \E t \in Tasks : NotifyAlready(t) /\ Observed
    \/ \E t \in Tasks : NotifyEmpty(t) /\ Observed
    \/ \E t \in Tasks, u \in Users : HostOnlyButton(t, u, 1, "broadcast") /\ Observed
    \/ \E t \in Tasks : ButtonReplied(t) /\ Observed
    \/ \E t \in Tasks, u \in Users : BcStart(t, u, 1) /\ Observed
    \/ BroadcastSteps
    \/ \E t \in Tasks : ChannelDeleted(t, 1) /\ Observed
    \/ \E t \in Tasks : TdAdNext(t) /\ Observed
    \/ \E t \in Tasks, ok \in BOOLEAN : TdAdDone(t, ok) /\ Observed
    \/ \E t \in Tasks : TdDmSend(t) /\ Observed
    \/ \E t \in Tasks : TdDmDone(t) /\ Observed
    \/ \E t \in Tasks : TdPurge(t) /\ Observed

SpecTeardown == InitTeardown /\ [][NextTeardown]_vars

\* members leave the guild while the platform may refuse a fetch
NextRemove ==
    \/ \E t \in Tasks, u \in Users : MemberLeaves(t, u) /\ Observed
    \/ \E t \in Tasks : OmrStart(t) /\ Observed
    \/ \E t \in Tasks : OmrNext(t) /\ Observed
    \/ \E t \in Tasks : OmrCS(t) /\ Observed
    \/ \E t \in Tasks : OmrRender(t) /\ Observed
    \/ \E t \in Tasks : OmrDone(t) /\ Observed
    \/ \E t \in Tasks : UqmEntry(t) /\ Observed
    \/ \E t \in Tasks : UqmFetched(t) /\ Observed
    \/ \E t \in Tasks : UqmNotFound(t) /\ Observed
    \/ \E t \in Tasks : UqmFetchRaises(t) /\ Observed
    \/ \E t \in Tasks : UqmEdited(t) /\ Observed
    \/ \E t \in Tasks : NotifyEmpty(t) /\ Observed
    \/ \E t \in Tasks : NotifyAlready(t) /\ Observed
    \/ \E m \in RoomIds : DisplayDeleted(PromptMsg(m)) /\ Observed

SpecRemove == InitRemove /\ [][NextRemove]_vars

\* rooms are created, started, deleted and swept as the days pass
NextReaper ==
    \/ \E r \in RoomIds : ChannelCreated(r) /\ Observed
    \/ \E t \in Tasks, u \in Users, r \in RoomIds : StartYes(t, u, r) /\ Observed
    \/ \E t \in Tasks : StartEdited(t) /\ Observed
    \/ TimePasses /\ Observed
    \/ ReaperSweep /\ Observed
    \/ \E t \in Tasks, r \in RoomIds : ChannelDeleted(t, r) /\ Observed
    \/ \E t \in Tasks : TdDmSend(t) /\ Observed
    \/ \E t \in Tasks : TdDmDone(t) /\ Observed
    \/ \E t \in Tasks : TdPurge(t) /\ Observed

SpecReaper == InitTeardown /\ [][NextReaper]_vars

\* the display of a room is deleted while members join and leave, the sweeps
\* run and another room is created and started
NextDisplay ==
    \/ \E t \in Tasks, u \in Users :
           JoinSubmit(t, u, 1, StrLower(Tank), <<"5","0">>) /\ Observed
    \/ \E t \in Tasks : JoinAcquire(t) /\ Observed
    \/ \E t \in Tasks : JoinCommit(t) /\ Observed
    \/ \E t \in Tasks : JoinAfterRender(t) /\ Observed
    \/ \E t \in Tasks : JoinReplied(t) /\ Observed
    \/ \E t \in Tasks, u \in Users : LeaveClick(t, u, 1) /\ Observed
    \/ \E t \in Tasks : LeaveCS(t) /\ Observed
    \/ \E t \in Tasks : LeaveReplied(t) /\ Observed
    \/ \E t \in Tasks : UqmEntry(t) /\ Observed
    \/ \E t \in Tasks : UqmFetched(t) /\ Observed
    \/ \E t \in Tasks : UqmNotFound(t) /\ Observed
    \/ \E t \in Tasks : UqmEdited(t) /\ Observed
    \/ \E t \in Tasks : NotifyEmpty(t) /\ Observed
    \/ \E t \in Tasks : NotifyAlready(t) /\ Observed
    \/ \E t \in Tasks : NotifySend(t) /\ Observed
    \/ \E t \in Tasks : NotifyDmDone(t) /\ Observed
    \/ \E t \in Tasks : CheckHostsTick(t) /\ Observed
    \/ \E t \in Tasks : ChNext(t) /\ Observed
    \/ \E t \in Tasks : ChDone(t) /\ Observed
    \/ \E t \in Tasks : ReassignNoop(t) /\ Observed
    \/ ReaperSweep /\ Observed
    \/ \E r \in RoomIds : ChannelCreated(r) /\ Observed
    \/ \E t \in Tasks, u \in Users, r \in RoomIds : StartYes(t, u, r) /\ Observed
    \/ \E t \in Tasks : StartEdited(t) /\ Observed
    \/ \E m \in RoomIds : DisplayDeleted(PromptMsg(m)) /\ Observed

SpecDisplay == InitHost /\ [][NextDisplay]_vars

\* the same, with more than the expiry period passing between handlers
NextActivity ==
    \/ NextDisplay
    \/ WeekPasses /\ Observed

SpecActivity == InitHost /\ [][NextActivity]_vars

\* the host of room 1 pulls waiting members while members join
NextPull ==
    \/ \E t \in Tasks, u \in Users : HostOnlyButton(t, u, 1, "pull") /\ Observed
    \/ \E t \in Tasks : ButtonReplied(t) /\ Observed
    \/ \E t \in Tasks, u \in Users, v \in Users : PullPick(t, u, 1, v) /\ Observed
    \/ \E t \in Tasks : PullChecked(t) /\ Observed
    \/ \E t \in Tasks : PullMoved(t) /\ Observed
    \/ \E t \in Tasks, error \in {"Forbidden", "Failed"} :
           PullMoveFails(t, error) /\ Observed
    \/ \E t \in Tasks : PullDmDone(t) /\ Observed
    \/ \E t \in Tasks, v \in Users :
           View("confirm", v, 1) \in views /\ ConfirmYes(t, v, 1) /\ Observed
    \/ \E t \in Tasks : ConfirmCS(t) /\ Observed
    \/ \E t \in Tasks : ConfirmAfter(t) /\ Observed
    \/ \E t \in Tasks : ConfirmReplied(t) /\ Observed
    \/ \E t \in Tasks, v \in Users : ConfirmNo(t, v, 1) /\ Observed
    \/ \E t \in Tasks, u \in Users :
           JoinSubmit(t, u, 1, StrLower(Tank), <<"5","0">>) /\ Observed
    \/ \E t \in Tasks : JoinAcquire(t) /\ Observed
    \/ \E t \in Tasks : JoinCommit(t) /\ Observed
    \/ \E t \in Tasks : JoinAfterRender(t) /\ Observed
    \/ \E t \in Tasks : JoinReplied(t) /\ Observed
    \/ \E t \in Tasks : UqmEntry(t) /\ Observed
    \/ \E t \in Tasks : UqmFetched(t) /\ Observed
    \/ \E t \in Tasks : UqmEdited(t) /\ Observed
    \/ \E t \in Tasks : NotifyEmpty(t) /\ Observed
    \/ \E t \in Tasks : NotifyAlready(t) /\ Observed
    \/ \E t \in Tasks : NotifySend(t) /\ Observed
    \/ \E t \in Tasks : NotifyDmDone(t) /\ Observed
    \/ \E u \in Users : VoiceJoin(u, 1) /\ Observed
    \/ \E u \in Users : VoiceLeave(u, 1) /\ Observed

SpecPull == InitTeardown /\ [][NextPull]_vars

\* the level texts typed into the group-info modal
LevelTexts == {<<"1">>, <<"x">>}

\* the members of room 1 use the host's buttons of its display
NextAuth ==
    \/ \E t \in Tasks, u \in Users, kind \in HostOnlyKinds \ {"broadcast"} :
           HostOnlyButton(t, u, 1, kind) /\ Observed
    \/ \E t \in Tasks : ButtonReplied(t) /\ Observed
    \/ \E t \in Tasks, u \in Users, lo \in LevelTexts :
           GroupInfoSubmit(t, u, 1, lo, <<"9">>) /\ Observed
    \/ \E t \in Tasks : GroupInfoStore(t) /\ Observed
    \/ \E t \in Tasks : EffectAfterRender(t) /\ Observed
    \/ \E t \in Tasks, u \in Users, v \in Users : HostSelectPick(t, u, 1, v) /\ Observed
    \/ \E t \in Tasks : UqmEntry(t) /\ Observed
    \/ \E t \in Tasks : UqmFetched(t) /\ Observed
    \/ \E t \in Tasks : UqmNotFound(t) /\ Observed
    \/ \E t \in Tasks : UqmEdited(t) /\ Observed
    \/ \E t \in Tasks : NotifyEmpty(t) /\ Observed
    \/ \E m \in RoomIds : DisplayDeleted(PromptMsg(m)) /\ Observed

SpecAuth == InitAuth /\ [][NextAuth]_vars

\* a full room that nobody touched for more than the expiry period: members
\* try to join while the Reaper sweeps
NextLocks ==
    \/ \E t \in Tasks, u \in Users :
           JoinSubmit(t, u, 1, StrLower(Tank), <<"5","0">>) /\ Observed
    \/ \E t \in Tasks : JoinAcquire(t) /\ Observed
    \/ \E t \in Tasks : JoinFull(t) /\ Observed
    \/ \E t \in Tasks : JoinFullSent(t) /\ Observed
    \/ \E t \in Tasks : JoinCommit(t) /\ Observed
    \/ \E t \in Tasks : JoinAfterRender(t) /\ Observed
    \/ \E t \in Tasks : JoinReplied(t) /\ Observed
    \/ \E t \in Tasks : LockGranted(t) /\ Observed
    \/ \E t \in Tasks : UqmEntry(t) /\ Observed
    \/ \E t \in Tasks : UqmFetched(t) /\ Observed
    \/ \E t \in Tasks : UqmEdited(t) /\ Observed
    \/ \E t \in Tasks : NotifyAlready(t) /\ Observed
    \/ WeekPasses /\ Observed
    \/ ReaperSweep /\ Observed

SpecLocks == InitCap /\ [][NextLocks]_vars

\* the steps of the handler in slot t, once it has started
WaitStep(t) ==
    /\ \/ JoinAcquire(t) \/ JoinFull(t) \/ JoinFullSent(t) \/ JoinCommit(t)
       \/ JoinAfterRender(t) \/ JoinReplied(t) \/ LockGranted(t)
       \/ LeaveCS(t) \/ LeaveReplied(t)
       \/ OmrStart(t) \/ OmrNext(t) \/ OmrCS(t) \/ OmrRender(t) \/ OmrDone(t)
       \/ ChNext(t) \/ ChDone(t) \/ ReassignNoop(t)
       \/ UqmEntry(t) \/ UqmFetched(t) \/ UqmEdited(t)
       \/ NotifyAlready(t) \/ NotifySend(t) \/ NotifyDmDone(t)
    /\ Observed

\* a full room: members try to join, the head leaves the waitlist or the
\* guild, and the background loops run
NextWait ==
    \/ \E t \in Tasks, u \in Users :
           JoinSubmit(t, u, 1, StrLower(Tank), <<"5","0">>) /\ Observed
    \/ \E t \in Tasks : JoinAcquire(t) /\ Observed
    \/ \E t \in Tasks : JoinFull(t) /\ Observed
    \/ \E t \in Tasks : JoinFullSent(t) /\ Observed
    \/ \E t \in Tasks : JoinCommit(t) /\ Observed
    \/ \E t \in Tasks : JoinAfterRender(t) /\ Observed
    \/ \E t \in Tasks : JoinReplied(t) /\ Observed
    \/ \E t \in Tasks : LockGranted(t) /\ Observed
    \/ \E t \in Tasks : LeaveClick(t, 1, 1) /\ Observed
    \/ \E t \in Tasks : LeaveCS(t) /\ Observed
    \/ \E t \in Tasks : LeaveReplied(t) /\ Observed
    \/ \E t \in Tasks : MemberLeaves(t, 1) /\ Observed
    \/ \E t \in Tasks : OmrStart(t) /\ Observed
    \/ \E t \in Tasks : OmrNext(t) /\ Observed
    \/ \E t \in Tasks : OmrCS(t) /\ Observed
    \/ \E t \in Tasks : OmrRender(t) /\ Observed
    \/ \E t \in Tasks : OmrDone(t) /\ Observed
    \/ \E t \in Tasks : CheckHostsTick(t) /\ Observed
    \/ \E t \in Tasks : ChNext(t) /\ Observed
    \/ \E t \in Tasks : ChDone(t) /\ Observed
    \/ \E t \in Tasks : ReassignNoop(t) /\ Observed
    \/ \E t \in Tasks : UqmEntry(t) /\ Observed
    \/ \E t \in Tasks : UqmFetched(t) /\ Observed
    \/ \E t \in Tasks : UqmEdited(t) /\ Observed
    \/ \E t \in Tasks : NotifyAlready(t) /\ Observed
    \/ \E t \in Tasks : NotifySend(t) /\ Observed
    \/ \E t \in Tasks : NotifyDmDone(t) /\ Observed
    \/ ReaperSweep /\ Observed

\* the event loop runs every coroutine that becomes ready, however often the
\* loops fire in between, and an awaited platform call returns
WaitFairness == \A t \in Tasks : SF_vars(WaitStep(t))

SpecWait == InitCap /\ [][NextWait]_vars /\ WaitFairness

\* what a step does to the observers when the gate's runs are followed
Gated ==
    ObserveDms /\ ObserveOrder /\ ObserveGate /\ UNCHANGED <<joined, appends, leaves>>

\* the steps of the handler in slot t, once it has started
GateStep(t) ==
    /\ \/ JoinAcquire(t) \/ JoinCommit(t) \/ JoinAfterRender(t) \/ JoinReplied(t)
       \/ LeaveCS(t) \/ LeaveReplied(t)
       \/ OmrStart(t) \/ OmrNext(t) \/ OmrCS(t) \/ OmrRender(t) \/ OmrDone(t)
       \/ UqmEntry(t) \/ UqmFetched(t) \/ UqmEdited(t)
       \/ NotifyEmpty(t) \/ NotifyAlready(t) \/ NotifyUnreachable(t)
       \/ NotifyRemove(t) \/ NotifySend(t) \/ NotifyDmDone(t)
    /\ Gated

\* members join and leave room 1 and leave the guild
NextGate ==
    \/ \E t \in Tasks, u \in Users :
           JoinSubmit(t, u, 1, StrLower(Tank), <<"5","0">>) /\ Gated
    \/ \E t \in Tasks : JoinAcquire(t) /\ Gated
    \/ \E t \in Tasks : JoinCommit(t) /\ Gated
    \/ \E t \in Tasks : JoinAfterRender(t) /\ Gated
    \/ \E t \in Tasks : JoinReplied(t) /\ Gated
    \/ \E t \in Tasks, u \in Users : LeaveClick(t, u, 1) /\ Gated
    \/ \E t \in Tasks : LeaveCS(t) /\ Gated
    \/ \E t \in Tasks : LeaveReplied(t) /\ Gated
    \/ \E t \in Tasks, u \in Users : MemberLeaves(t, u) /\ Gated
    \/ \E t \in Tasks : OmrStart(t) /\ Gated
    \/ \E t \in Tasks : OmrNext(t) /\ Gated
    \/ \E t \in Tasks : OmrCS(t) /\ Gated
    \/ \E t \in Tasks : OmrRender(t) /\ Gated
    \/ \E t \in Tasks : OmrDone(t) /\ Gated
    \/ \E t \in Tasks : UqmEntry(t) /\ Gated
    \/ \E t \in Tasks : UqmFetched(t) /\ Gated
    \/ \E t \in Tasks : UqmEdited(t) /\ Gated
    \/ \E t \in Tasks : NotifyEmpty(t) /\ Gated
    \/ \E t \in Tasks : NotifyAlready(t) /\ Gated
    \/ \E t \in Tasks : NotifyUnreachable(t) /\ Gated
    \/ \E t \in Tasks : NotifyRemove(t) /\ Gated
    \/ \E t \in Tasks : NotifySend(t) /\ Gated
    \/ \E t \in Tasks : NotifyDmDone(t) /\ Gated

\* the event loop runs a coroutine that is ready, and a platform call that is
\* awaited returns
GateFairness == WF_vars(\E t \in Tasks : GateStep(t))

SpecGate == Init /\ [][NextGate]_vars /\ GateFairness

\* the bot is in a guild that has no voice channel yet
InitNoRooms ==
    /\ queues = EmptyDict
    /\ queue_messages = EmptyDict
    /\ queue_hosts = EmptyDict
    /\ notified_next = EmptyDict
    /\ queue_locks = EmptyDict
    /\ queue_last_active = EmptyDict
    /\ voice = [r \in RoomIds |-> <<>>]
    /\ members = Users \cup Fillers \cup {PassiveHost}
    /\ channels = {}
    /\ display_live = {}
    /\ dm_blocked = {NumUsers}
    /\ now = 0

InitUnset == InitNoRooms /\ InitRuntime

\* rooms are created and started by user 1, who then leaves the guild; the
\* sweeps run, the other user connects, joins and leaves room 1 and the host of
\* room 1 is reassigned
NextUnset ==
    \/ \E t \in Tasks : MemberLeaves(t, 1) /\ Observed
    \/ \E t \in Tasks : OmrStart(t) /\ Observed
    \/ \E t \in Tasks : OmrNext(t) /\ Observed
    \/ \E t \in Tasks : OmrCS(t) /\ Observed
    \/ \E t \in Tasks : OmrRender(t) /\ Observed
    \/ \E t \in Tasks : OmrDone(t) /\ Observed
    \/ \E t \in Tasks : CheckHostsTick(t) /\ Observed
    \/ \E t \in Tasks : ChNext(t) /\ Observed
    \/ \E t \in Tasks : ChDone(t) /\ Observed
    \/ \E t \in Tasks : ReassignNoop(t) /\ Observed
    \/ \E t \in Tasks : ReassignPick(t) /\ Observed
    \/ \E t \in Tasks : ReassignDmDone(t) /\ Observed
    \/ \E t \in Tasks : ReassignClear(t) /\ Observed
    \/ \E t \in Tasks :
           JoinSubmit(t, NumUsers, 1, StrLower(Tank), <<"5","0">>) /\ Observed
    \/ \E t \in Tasks : JoinAcquire(t) /\ Observed
    \/ \E t \in Tasks : JoinCommit(t) /\ Observed
    \/ \E t \in Tasks : JoinAfterRender(t) /\ Observed
    \/ \E t \in Tasks : JoinReplied(t) /\ Observed
    \/ \E t \in Tasks : LeaveClick(t, NumUsers, 1) /\ Observed
    \/ \E t \in Tasks : LeaveCS(t) /\ Observed
    \/ \E t \in Tasks : LeaveReplied(t) /\ Observed
    \/ \E t \in Tasks : UqmEntry(t) /\ Observed
    \/ \E t \in Tasks : UqmFetched(t) /\ Observed
    \/ \E t \in Tasks : UqmEdited(t) /\ Observed
    \/ \E t \in Tasks : NotifyEmpty(t) /\ Observed
    \/ \E t \in Tasks : NotifyAlready(t) /\ Observed
    \/ \E t \in Tasks : NotifySend(t) /\ Observed
    \/ \E t \in Tasks : NotifyDmDone(t) /\ Observed
    \/ ReaperSweep /\ Observed
    \/ WeekPasses /\ Observed
    \/ \E r \in RoomIds : ChannelCreated(r) /\ Observed
    \/ \E t \in Tasks, r \in RoomIds : StartYes(t, 1, r) /\ Observed
    \/ \E t \in Tasks : StartEdited(t) /\ Observed
    \/ \E t \in Tasks, u \in Users :
           HostOnlyButton(t, u, 1, "change_host") /\ Observed
    \/ \E t \in Tasks : ButtonReplied(t) /\ Observed
    \/ \E t \in Tasks, u \in Users, v \in Users : HostSelectPick(t, u, 1, v) /\ Observed
    \/ \E t \in Tasks : EffectAfterRender(t) /\ Observed
    \/ \E r \in RoomIds : VoiceJoin(NumUsers, r) /\ Observed

SpecUnset == InitUnset /\ [][NextUnset]_vars

\* the rooms of SpecUnset, with a platform error in the sweep's render
NextSweep ==
    \/ NextUnset
    \/ \E t \in Tasks : ChFetchRaises(t) /\ Observed

SpecSweep == InitUnset /\ [][NextSweep]_vars

\* the host broadcasts room 1 while the room is deleted or evicted, and the
\* sweep of the broadcast channel runs
NextOrphans ==
    \/ \E t \in Tasks : HostOnlyButton(t, 1, 1, "broadcast") /\ Observed
    \/ \E t \in Tasks : ButtonReplied(t) /\ Observed
    \/ \E t \in Tasks : BcStart(t, 1, 1) /\ Observed
    \/ BroadcastSteps
    \/ \E t \in Tasks : BcDeleteFails(t) /\ Observed
    \/ \E t \in Tasks : ChannelDeleted(t, 1) /\ Observed
    \/ \E t \in Tasks : TdAdNext(t) /\ Observed
    \/ \E t \in Tasks, ok \in BOOLEAN : TdAdDone(t, ok) /\ Observed
    \/ \E t \in Tasks : TdDmSend(t) /\ Observed
    \/ \E t \in Tasks : TdDmDone(t) /\ Observed
    \/ \E t \in Tasks : TdPurge(t) /\ Observed
    \/ WeekPasses /\ Observed
    \/ ReaperSweep /\ Observed
    \/ \E t \in Tasks : CobStart(t) /\ Observed
    \/ \E t \in Tasks : CobHistory(t) /\ Observed
    \/ \E t \in Tasks : CobNext(t) /\ Observed
    \/ \E t \in Tasks, ok \in BOOLEAN : CobDeleted(t, ok) /\ Observed
    \/ \E t \in Tasks : CobDone(t) /\ Observed

SpecOrphans == InitTeardown /\ [][NextOrphans]_vars

\* the host of room 1 is shown the pull selection while user 2 waits; user 2
\* leaves the waitlist or is removed by a confirmed pull, and the host selects
NextStalePull ==
    \/ \E t \in Tasks : HostOnlyButton(t, 1, 1, "pull") /\ Observed
    \/ \E t \in Tasks : ButtonReplied(t) /\ Observed
    \/ \E t \in Tasks : PullPick(t, 1, 1, 2) /\ Observed
    \/ \E t \in Tasks : PullChecked(t) /\ Observed
    \/ \E t \in Tasks : PullMoved(t) /\ Observed
    \/ \E t \in Tasks, error \in {"Forbidden", "Failed"} :
           PullMoveFails(t, error) /\ Observed
    \/ \E t \in Tasks : PullDmDone(t) /\ Observed
    \/ \E t \in Tasks :
           View("confirm", 2, 1) \in views /\ ConfirmYes(t, 2, 1) /\ Observed
    \/ \E t \in Tasks : ConfirmCS(t) /\ Observed
    \/ \E t \in Tasks : ConfirmAfter(t) /\ Observed
    \/ \E t \in Tasks : ConfirmReplied(t) /\ Observed
    \/ \E t \in Tasks : LeaveClick(t, 2, 1) /\ Observed
    \/ \E t \in Tasks : LeaveCS(t) /\ Observed
    \/ \E t \in Tasks : LeaveReplied(t) /\ Observed
    \/ \E t \in Tasks : UqmEntry(t) /\ Observed
    \/ \E t \in Tasks : UqmFetched(t) /\ Observed
    \/ \E t \in Tasks : UqmEdited(t) /\ Observed
    \/ \E t \in Tasks : NotifyEmpty(t) /\ Observed
    \/ \E r \in RoomIds : ChannelCreated(r) /\ Observed
    \/ \E r \in RoomIds : VoiceJoin(2, r) /\ Observed
    \/ \E r \in RoomIds : VoiceLeave(2, r) /\ Observed

SpecStalePull == InitTeardown /\ [][NextStalePull]_vars

\* ------------------------------------------------------------- properties

\* task t is about to run the critical section labelled pc
InSection(t, pc) == running = t /\ tasks[t].pc = pc

\* the entries other than u's, in order
Others(entries, u) == SelectSeq(entries, LAMBDA e : e.user_id # u)

\* C1: a waitlist never holds more than MAX_QUEUE_SIZE entries; a Join by a
\* user who is not queued, on a waitlist that holds MAX_QUEUE_SIZE entries,
\* reports QueueFull and leaves the entries as they were; a Join by a user who
\* is queued succeeds as an update even then.
C1_Capacity ==
    /\ [](\A r \in DOMAIN queues : Len(queues[r]) <= MAX_QUEUE_SIZE)
    /\ [][\A t \in Tasks : InSection(t, "join_cs") =>
            LET r == tasks[t].room
                u == tasks[t].user
                before == EntriesOf(queues, r)
                after == EntriesOf(queues', r)
            IN  /\ (~IsQueued(before, u) /\ Len(before) >= MAX_QUEUE_SIZE) =>
                       /\ after = before
                       /\ tasks'[t].result = "QueueFull"
                /\ IsQueued(before, u) =>
                       /\ tasks'[t].result = "updated"
                       /\ Len(after) = Len(before)]_vars

\* a Join was refused for capacity and a queued user's Join succeeded, on a
\* waitlist that holds MAX_QUEUE_SIZE entries
C1_Witness ==
    \E t1, t2 \in Tasks :
        /\ tasks[t1].result = "QueueFull"
        /\ tasks[t2].result = "updated"
        /\ tasks[t1].room = tasks[t2].room
        /\ Len(EntriesOf(queues, tasks[t1].room)) = MAX_QUEUE_SIZE

\* C2: a Join by a user who is already queued overwrites the role and the
\* level of that user's entry and nothing else: the length, every user's
\* position and every other entry stay as they were.
C2_RejoinInPlace ==
    [][\A t \in Tasks :
        (InSection(t, "join_cs") /\ IsQueued(EntriesOf(queues, tasks[t].room),
                                             tasks[t].user)) =>
            LET r == tasks[t].room
                u == tasks[t].user
                before == EntriesOf(queues, r)
                after == EntriesOf(queues', r)
            IN  /\ Len(after) = Len(before)
                /\ \A i \in 1..Len(before) :
                       /\ after[i].user_id = before[i].user_id
                       /\ before[i].user_id # u => after[i] = before[i]
                       /\ before[i].user_id = u =>
                              /\ after[i].class = tasks[t].clazz
                              /\ after[i].level = tasks[t].level]_vars

\* a queued user who is not last re-joined with another role, and kept the
\* position
C2_Witness ==
    \E t \in Tasks :
        LET entries == EntriesOf(queues, tasks[t].room)
        IN  /\ tasks[t].result = "updated"
            /\ tasks[t].position < Len(entries)
            /\ entries[tasks[t].position].user_id = tasks[t].user
            /\ entries[tasks[t].position].class = tasks[t].clazz
            /\ \E i \in 1..Len(entries) : entries[i].class # tasks[t].clazz

\* C4: no waitlist holds two entries of one user, whatever Joins run
\* concurrently.
C4_NoDuplicateUser ==
    \A r \in DOMAIN queues :
        \A i, j \in 1..Len(queues[r]) :
            queues[r][i].user_id = queues[r][j].user_id => i = j

\* two Joins of one user to one room are in flight, and both went through
\* the critical section
C4_Witness ==
    \E t1, t2 \in Tasks :
        /\ t1 # t2
        /\ tasks[t1].op = "join" /\ tasks[t2].op = "join"
        /\ tasks[t1].user = tasks[t2].user
        /\ tasks[t1].room = tasks[t2].room
        /\ tasks[t1].result = "joined"
        /\ tasks[t2].result = "updated"

\* C5: Leave, on the display or on an advertisement, removes the entry of the
\* user who pressed it and no other, and
\* reports 'removed'; pressed by a user who is not queued it changes no entry
\* and reports that; so a second Leave changes nothing.
C5_LeaveIdempotent ==
    [][\A t \in Tasks : InSection(t, "leave_cs") =>
            LET r == tasks[t].room
                u == tasks[t].user
                before == EntriesOf(queues, r)
                after == EntriesOf(queues', r)
            IN  /\ after = Others(before, u)
                /\ ~IsQueued(after, u)
                /\ ~IsQueued(before, u) => after = before
                /\ tasks'[t].result =
                       IF IsQueued(before, u) THEN "removed" ELSE "not_in_queue"]_vars

\* a user pressed Leave twice: the first removed the entry, the second found
\* none, and another user's entry is still there
C5_Witness ==
    \E t1, t2 \in Tasks :
        /\ t1 # t2
        /\ tasks[t1].op = "leave" /\ tasks[t2].op = "leave"
        /\ tasks[t1].user = tasks[t2].user
        /\ tasks[t1].room = tasks[t2].room
        /\ tasks[t1].result = "removed"
        /\ tasks[t2].result = "not_in_queue"

\* C7: a Join by a user who is not queued, on a waitlist below capacity,
\* appends the entry after every existing one, and the position it returns is
\* the 1-based index of the user's entry when the critical section ends.
C7_AppendAndPosition ==
    [][\A t \in Tasks : InSection(t, "join_cs") =>
            LET r == tasks[t].room
                u == tasks[t].user
                before == EntriesOf(queues, r)
                after == EntriesOf(queues', r)
                pos == tasks'[t].position
            IN  /\ (~IsQueued(before, u) /\ Len(before) < MAX_QUEUE_SIZE) =>
                       /\ Len(after) = Len(before) + 1
                       /\ SubSeq(after, 1, Len(before)) = before
                       /\ after[Len(after)].user_id = u
                       /\ pos = Len(after)
                /\ tasks'[t].result \in {"joined", "updated"} =>
                       /\ pos \in 1..Len(after)
                       /\ after[pos].user_id = u]_vars

\* a Join was appended behind another entry and returned position 2
C7_Witness ==
    \E t \in Tasks :
        LET entries == EntriesOf(queues, tasks[t].room)
        IN  /\ tasks[t].result = "joined"
            /\ tasks[t].position = 2
            /\ Len(entries) = 2
            /\ entries[2].user_id = tasks[t].user

\* C3: within one queue lifetime, two users who are both in the waitlist in
\* two states are in the same relative order in both.
C3_AsClaimed ==
    \A r \in RoomIds : \A u, v \in Users :
        ~(<<u, v>> \in order_seen[r] /\ <<v, u>> \in order_seen[r])

\* C3 (as the code has it): no step reorders the entries that survive it, so
\* two users keep their relative order for as long as both stay in the
\* waitlist.
C3_SurvivorsKeepOrder ==
    [][\A r \in RoomIds :
        LET before == EntriesOf(queues, r)
            after == EntriesOf(queues', r)
        IN  \A u, v \in UserIds(before) :
                (Ahead(before, u, v) /\ IsQueued(after, u) /\ IsQueued(after, v))
                    => (Ahead(after, u, v) /\ ~Ahead(after, v, u))]_vars

\* a user who re-joined is still ahead of a user who stayed behind
C3_Witness ==
    \E t \in Tasks : \E v \in Users :
        /\ tasks[t].result = "updated"
        /\ Ahead(EntriesOf(queues, tasks[t].room), tasks[t].user, v)
        /\ <<tasks[t].user, v>> \in order_seen[tasks[t].room]

\* C9: the head of a waitlist is sent at most one 'you are next' message
\* while the head stays the same, whatever renders run concurrently.
C9_AsClaimed == \A r \in RoomIds : next_dms[r] <= 1

\* every handler has ended
Quiescent == \A t \in Tasks : tasks[t].op = "idle"

\* C6: after a sequence of Joins and Leaves on one room, below capacity, the
\* length of the waitlist is the number of distinct users who joined minus the
\* number of Leaves that removed an entry.
C6_AsClaimed ==
    Quiescent =>
        \A r \in RoomIds :
            Len(EntriesOf(queues, r)) = Cardinality(joined[r]) - leaves[r]

\* C6 (as the code has it): the length of the waitlist is the number of Joins
\* that added an entry minus the number of Leaves that removed one; that is
\* the number of distinct joiners minus the removing Leaves when no user
\* joined again after leaving.
C6_LengthIsAppendsMinusLeaves ==
    \A r \in RoomIds :
        /\ Len(EntriesOf(queues, r)) = appends[r] - leaves[r]
        /\ appends[r] = Cardinality(joined[r]) =>
               Len(EntriesOf(queues, r)) = Cardinality(joined[r]) - leaves[r]

\* a user joined, left and joined again: one entry, one distinct joiner, one
\* removing Leave
C6_Witness ==
    /\ Quiescent
    /\ appends[1] = 2
    /\ leaves[1] = 1
    /\ Cardinality(joined[1]) = 1
    /\ Len(EntriesOf(queues, 1)) = 1

\* the class text equals an allowed class, letter case and surrounding
\* whitespace aside
RoleMatches(text) ==
    \E i \in 1..Len(ALLOWED_CLASSES) :
        StrLower(StrStrip(text)) = StrLower(ALLOWED_CLASSES[i])

\* the level text is a decimal integer in MIN_LEVEL..MAX_LEVEL
LevelInRange(text) ==
    /\ IntAccepts(text)
    /\ StrToInt(text) >= MIN_LEVEL
    /\ StrToInt(text) <= MAX_LEVEL

\* C8: a Join whose class is not an allowed class fails with InvalidRole, one
\* whose level is not an integer in 1..9999 fails with InvalidLevel, neither
\* changes the room's entries, locks, notification record or display, and a
\* Join that succeeds stores the class in its canonical casing.
C8_AsClaimed ==
    /\ [](\A t \in Tasks : (tasks[t].op = "join" /\ tasks[t].pc # "join_defer") =>
            /\ ~RoleMatches(tasks[t].clazz_raw) => tasks[t].result = "InvalidRole"
            /\ (RoleMatches(tasks[t].clazz_raw) /\ ~LevelInRange(tasks[t].level_raw))
                   => tasks[t].result = "InvalidLevel"
            /\ tasks[t].result \in {"joined", "updated"} =>
                   \E i \in 1..Len(ALLOWED_CLASSES) :
                       /\ tasks[t].clazz = ALLOWED_CLASSES[i]
                       /\ StrLower(StrStrip(tasks[t].clazz_raw)) = StrLower(tasks[t].clazz))
    /\ [][\A t \in Tasks :
            (tasks[t].pc = "join_defer" /\ tasks'[t].pc # "join_defer"
             /\ ~(RoleMatches(tasks[t].clazz_raw) /\ LevelInRange(tasks[t].level_raw)))
                => UNCHANGED <<dicts, locks>>]_vars

\* C10: when failover changes the host of a room, the new host is the first
\* of the members present in the room at that moment, and the host becomes
\* unset when no member is present; the new host is always a present member.
C10_FailoverPicksFirstPresent ==
    [][\A t \in Tasks :
        (InSection(t, "reassign_entry") /\ queue_hosts' # queue_hosts) =>
            LET r == tasks[t].room
                present == SelectSeq(voice[r], LAMBDA u : u \in members)
            IN  IF present = <<>>
                THEN r \notin DOMAIN queue_hosts'
                ELSE /\ r \in DOMAIN queue_hosts'
                     /\ queue_hosts'[r] = present[1]
                     /\ queue_hosts'[r] \in members
                     /\ \E i \in 1..Len(voice[r]) : voice[r][i] = queue_hosts'[r]]_vars

\* the host left the guild with two other members connected, and the first of
\* them is the host now
C10_Witness ==
    \E t \in Tasks :
        LET r == tasks[t].room
        IN  /\ tasks[t].pc = "reassign_dm"
            /\ Len(ChannelMembers(r)) >= 2
            /\ r \in DOMAIN queue_hosts
            /\ queue_hosts[r] = ChannelMembers(r)[1]
            /\ queue_hosts[r] # ChannelMembers(r)[Len(ChannelMembers(r))]

\* the host of room r is a user who left the guild
HostDeparted(r) ==
    r \in channels /\ r \in DOMAIN queue_hosts /\ queue_hosts[r] \notin members

\* the host of room r is unset or a member connected to the room
HostSettled(r) ==
    \/ r \notin DOMAIN queue_hosts
    \/ \E i \in 1..Len(ChannelMembers(r)) : ChannelMembers(r)[i] = queue_hosts[r]

\* C11: when the host of a room has left the guild, the room's host is
\* eventually unset or a member present in the room, whether or not the room
\* has a key in queues.
C11_DepartedHostReplaced ==
    \A r \in RoomIds : HostDeparted(r) ~> HostSettled(r)

\* the host of a room without a key in queues left the guild, and the sweep
\* gave the room a host who is present
C11_Witness ==
    \E t \in Tasks :
        /\ tasks[t].op = "check_hosts"
        /\ tasks[t].pc = "reassign_dm"
        /\ tasks[t].room \notin DOMAIN queues
        /\ 1 \notin members
        /\ HostSettled(tasks[t].room)
        /\ tasks[t].room \in DOMAIN queue_hosts

\* ------------------------------------------------------------ advertisements

\* every advertisement that was ever posted for room r
PostedAds(r) == {id \in DOMAIN ads : ads[id].room = r}

\* the advertisement of room r that was posted last
LatestAd(r) == CHOOSE id \in PostedAds(r) : \A other \in PostedAds(r) : other <= id

BroadcastInFlight == \E t \in Tasks : tasks[t].op = "broadcast"

\* C13: after Broadcast ran twice in succession for a room, exactly one
\* advertisement of the room is live, and it is the one the second run posted
C13_AsClaimed ==
    \A r \in RoomIds :
        (~BroadcastInFlight /\ Cardinality(PostedAds(r)) >= 2 /\ ads[LatestAd(r)].live)
            => LiveAds(r) = {LatestAd(r)}

\* C14: when a Broadcast has posted, it went through every id that was tracked
\* before, the tracked set is exactly the new id, and no id that was tracked
\* before is live
C14_AsClaimed ==
    \A t \in Tasks :
        (tasks[t].op = "broadcast" /\ tasks[t].pc = "bc_reply" /\ tasks[t].result = "sent")
            => /\ tasks[t].keys = <<>>
               /\ Get(broadcast_messages, tasks[t].room, <<>>) = <<tasks[t].msg>>
               /\ \A i \in 1..Len(tasks[t].old) : ~ads[tasks[t].old[i]].live

\* the advertisement ids tracked for room r
TrackedAds(r) ==
    {Get(broadcast_messages, r, <<>>)[i] : i \in 1..Len(Get(broadcast_messages, r, <<>>))}

\* C15: once overlapping Broadcasts of a room have all finished, at most one
\* advertisement of the room is live and every live one is tracked
C15_AsClaimed ==
    \A r \in RoomIds :
        ~BroadcastInFlight =>
            /\ Cardinality(LiveAds(r)) <= 1
            /\ LiveAds(r) \subseteq TrackedAds(r)

\* -------------------------------------------------------------- eviction

\* C12: in the state an eviction of room r completes in (the step that pops
\* the room from queues), none of the eight per-room maps has the key r
C12_AsClaimed ==
    [][\A r \in RoomIds : (r \in DOMAIN queues /\ r \notin DOMAIN queues') => NoKey(r)']_vars

\* C17: at the step of the teardown that purges the room, a notification was
\* attempted for every guild member who has an entry in the room
C17_AsClaimed ==
    [][\A t \in Tasks :
          (tasks[t].op = "teardown" /\ tasks'[t].op = "idle") =>
              \A i \in 1..Len(EntriesOf(queues, tasks[t].room)) :
                  LET u == EntriesOf(queues, tasks[t].room)[i].user_id
                  IN  u \in members => u \in tasks[t].told]_vars

\* ------------------------------------------------------------ host authority

HostOnlyOps == {"group_info_submit", "host_select"}

\* the state of room r that only its host may change
HostOwned(r) == <<EntriesOf(queues, r), Get(queue_hosts, r, NoUser),
                  Get(group_info, r, <<>>), Get(broadcast_messages, r, <<>>)>>

\* C16: a step of a host-only action that changes the entries, the host, the
\* group constraints or the tracked advertisements of a room is taken for the
\* user who is the room's host at that step
C16_AsClaimed ==
    [][\A t \in Tasks, r \in RoomIds :
          (/\ tasks'[t].op \in HostOnlyOps
           /\ tasks'[t].room = r
           /\ tasks'[t] # tasks[t]
           /\ HostOwned(r)' # HostOwned(r))
              => Get(queue_hosts, r, NoUser) = tasks'[t].user]_vars

\* ------------------------------------------------------------ member removal

\* C18: in the state on_member_remove finishes in, no room's waitlist has an
\* entry of the removed user
C18_AsClaimed ==
    [][\A t \in Tasks :
          (tasks[t].op = "omr" /\ tasks'[t].op = "idle") =>
              \A r \in DOMAIN queues' : ~IsQueued(queues'[r], tasks[t].user)]_vars

\* ------------------------------------------------------------ Reaper, start

\* everything the eight per-room maps hold for room r
RoomMaps(r) == [i \in 1..Len(PerRoomMaps) |-> Get(PerRoomMaps[i], r, "none")]

\* the backing room is gone, or the room was last active more than 7 days ago
Evictable(r) ==
    \/ r \notin channels
    \/ r \in DOMAIN queue_last_active /\ now - queue_last_active[r] > SEVEN_DAYS

C21_TrackingNotRecreated ==
    [][/\ \A t \in Tasks :
              (/\ tasks[t].pc = "uqm_fetch"
               /\ tasks[t].msg \notin display_live
               /\ tasks'[t] # tasks[t])
                  => tasks[t].room \notin DOMAIN queue_messages'
       /\ \A r \in RoomIds :
              (r \notin DOMAIN queue_messages /\ r \in DOMAIN queue_messages')
                  => \E t \in Tasks : /\ tasks[t].op = "start"
                                      /\ tasks[t].room = r
                                      /\ tasks'[t].op = "idle"]_vars

\* the display of room 1 is gone and its reference cleared, and every handler
\* allowed has run to its end with two members waiting
C21_Witness ==
    /\ Quiescent
    /\ PromptMsg(1) \notin display_live
    /\ 1 \in DOMAIN queues
    /\ 1 \notin DOMAIN queue_messages
    /\ Len(queues[1]) = NumUsers
    /\ ops = MaxOps

\* ------------------------------------------------------------------- Pull

PullOps == {"pull", "pull_select", "confirm_no"}

\* C22: the step of a confirmed removal takes exactly the pulled user's entry
\* out of the room's waitlist and keeps the other entries in their order, and
\* no step of the Pull button, of the select (move failed or not) or of a
\* declined removal changes any waitlist
C22_PullRemovesOnlyOnConfirm ==
    [][\A t \in Tasks :
          /\ (tasks[t].pc = "confirm_cs" /\ tasks'[t].pc # "confirm_cs") =>
                 /\ EntriesOf(queues', tasks[t].room) =
                        Others(EntriesOf(queues, tasks[t].room), tasks[t].user)
                 /\ \A r \in DOMAIN queues \ {tasks[t].room} :
                        EntriesOf(queues', r) = queues[r]
          /\ ((tasks[t].op \in PullOps \/ tasks'[t].op \in PullOps)
                 /\ tasks'[t] # tasks[t]) => queues' = queues]_vars

\* the head was pulled into the host's channel and removed on confirmation,
\* the member who joined behind it is left
C22_Witness ==
    /\ Quiescent
    /\ View("confirm", 2, 1) \in views
    /\ VoiceChannelOf(2) = 1
    /\ Len(EntriesOf(queues, 1)) = 1
    /\ EntriesOf(queues, 1)[1].user_id = 1
    /\ ops = MaxOps

\* ------------------------------------------------------------ host changes

\* the step is the acceptance of a start-queue confirmation for room r
StartStep(r) ==
    \E t \in Tasks : /\ tasks[t].op = "idle" /\ tasks'[t].op = "start"
                     /\ tasks'[t].room = r

\* the step is the selection of a new host for room r in a HostSelect
SelectStep(r) ==
    \E t \in Tasks : /\ tasks[t].op = "idle" /\ tasks'[t].op = "host_select"
                     /\ tasks'[t].room = r

\* C23: a room without a host gets one only in the step of a start-queue
\* confirmation or of a host selection for that room; no step of failover, of
\* the check_hosts sweep, of Join, Leave, the render or the Reaper does it
C23_UnsetToActiveOnlyExplicit ==
    [][\A r \in RoomIds :
          (r \notin DOMAIN queue_hosts /\ r \in DOMAIN queue_hosts')
              => (StartStep(r) \/ SelectStep(r))]_vars

\* room 1 lost its host to failover with nobody connected, a member then
\* connected and joined, and the room still has no host
C23_Witness ==
    /\ Quiescent
    /\ 1 \notin DOMAIN queue_hosts
    /\ 1 \notin members
    /\ ChannelMembers(1) # <<>>
    /\ EntriesOf(queues, 1) # <<>>
    /\ ops = MaxOps

\* the step is a host selection for room r made by u
SelectStepBy(r, u) ==
    \E t \in Tasks : /\ tasks[t].op = "idle" /\ tasks'[t].op = "host_select"
                     /\ tasks'[t].room = r /\ tasks'[t].user = u

\* the step is failover's assignment for room r, whose host left the guild
FailoverStep(r) ==
    \E t \in Tasks : /\ running = t /\ tasks[t].pc = "reassign_entry"
                     /\ tasks[t].room = r /\ queue_hosts[r] \notin members

\* C24: a step that replaces the host of a room by another user is a host
\* selection made by the user who is the host at that step, or failover's
\* assignment after the host left the guild
C24_AsClaimed ==
    [][\A r \in RoomIds :
          (/\ r \in DOMAIN queue_hosts
           /\ r \in DOMAIN queue_hosts'
           /\ queue_hosts'[r] # queue_hosts[r])
              => (SelectStepBy(r, queue_hosts[r]) \/ FailoverStep(r))]_vars

\* -------------------------------------------------------- notification gate

\* task t's await of the direct message to the head ends in this step
DmEnds(t) == tasks[t].pc = "notify_dm" /\ tasks'[t].pc # "notify_dm"

\* C25: when the direct message to the head could not be delivered, the gate
\* goes on to drop that user's entry (it takes the room's lock for the
\* removal) unless the entry is gone already
C25_AsClaimed ==
    [][\A t \in Tasks :
          (DmEnds(t) /\ ~CanDeliver(tasks[t].first))
              => \/ tasks'[t].pc \in {"notify_cs", "notify_wait"}
                 \/ tasks[t].first \notin UserIds(EntriesOf(queues', tasks[t].room))]_vars

\* the record of room r is u and u is the head of r's waitlist
RecordIsHead(recorded, waitlists, r) ==
    /\ EntriesOf(waitlists, r) # <<>>
    /\ HeadOf(waitlists, r) = recorded[r]

\* C26: a step that records a user as notified for a room records a user who
\* accepts direct messages and is the head of the room's waitlist at that
\* step; and a step that leaves no handler in flight leaves every recorded
\* user at the head of the room's waitlist
C26_AsClaimed ==
    [][/\ \A r \in RoomIds :
             (/\ r \in DOMAIN notified_next'
              /\ Get(notified_next, r, NoUser) # notified_next'[r])
                 => /\ notified_next'[r] \notin dm_blocked
                    /\ RecordIsHead(notified_next', queues, r)
       /\ Quiescent' => \A r \in DOMAIN notified_next' :
                            RecordIsHead(notified_next', queues', r)]_vars

\* task t is inside notify_next_in_queue
InGate(t) == tasks[t].pc \in GatePcs

\* C27: every run of the gate returns; a run never drops more entries than the
\* waitlist had when the run started; the run drops an entry only when the
\* waitlist is not empty and its head is not a guild member, and it returns
\* when the await of the direct message to a head who is a member ends
C27_GateTerminates ==
    /\ \A t \in Tasks : InGate(t) ~> ~InGate(t)
    /\ [](\A t \in Tasks : gate_runs[t].removed <= gate_runs[t].n)
    /\ [][\A t \in Tasks :
             /\ (tasks[t].pc = "notify_entry" /\ tasks'[t].pc \in {"notify_cs", "notify_wait"})
                    => /\ EntriesOf(queues, tasks[t].room) # <<>>
                       /\ HeadOf(queues, tasks[t].room) \notin members
             /\ (tasks[t].pc = "notify_entry" /\ EntriesOf(queues, tasks[t].room) = <<>>
                    /\ tasks'[t] # tasks[t]) => ~InGate(t)'
             /\ DmEnds(t) => ~InGate(t)']_vars

\* a run that started on two entries dropped a head who had left the guild and
\* went on to the member behind it
C27_Witness ==
    \E t \in Tasks : /\ tasks[t].pc = "notify_dm"
                     /\ gate_runs[t].n = 2
                     /\ gate_runs[t].removed = 1

\* ------------------------------------------------------------------ locks

\* the handlers in flight that obtained a lock for room r
LockUsers(r) == {t \in Tasks : tasks[t].room = r /\ tasks[t].lock # 0}

\* C28: while a room's lock is never removed from queue_locks, every handler
\* that obtained a lock for the room obtained the one queue_locks maps the room
\* to, so all of them have the same lock; and a step in which a handler obtains
\* a lock for a room that has one mapped leaves the mapping as it is
C28_OneLockPerRoom ==
    /\ [](\A r \in RoomIds : \A t \in LockUsers(r) :
              r \in DOMAIN queue_locks /\ tasks[t].lock = queue_locks[r])
    /\ [][\A r \in DOMAIN queue_locks :
              r \in DOMAIN queue_locks' /\ queue_locks'[r] = queue_locks[r]]_vars

\* two handlers in flight on room 1, which had no lock at the start, have the
\* same lock
C28_Witness ==
    /\ Cardinality(LockUsers(1)) = NumTasks
    /\ \A t \in LockUsers(1) : tasks[t].lock = queue_locks[1]
    /\ \E t \in Tasks : tasks[t].op = "join"
    /\ \E t \in Tasks : tasks[t].op = "leave"

\* the labels inside an `async with lock` block
SectionPcs == {"join_cs", "join_full_send", "leave_cs", "leave_ad_cs",
               "confirm_cs", "omr_cs", "notify_cs"}

\* task t is inside a lock-protected section of room r
InsideSection(t, r) == tasks[t].pc \in SectionPcs /\ tasks[t].room = r

\* C29: no two handlers are inside a lock-protected section of the same room
C29_AsClaimed ==
    \A r \in RoomIds : \A t1, t2 \in Tasks :
        (InsideSection(t1, r) /\ InsideSection(t2, r)) => t1 = t2

\* the entries and the host of room r
EntriesAndHost(r) ==
    <<r \in DOMAIN queues, EntriesOf(queues, r), Get(queue_hosts, r, NoUser)>>

\* the running handler holds the lock queue_locks maps room r to
RunningHoldsLock(r) ==
    /\ running # NoTask
    /\ r \in DOMAIN queue_locks
    /\ locks[queue_locks[r]].holder = running

\* C30: a step that changes the entries or the host of a room is taken by a
\* handler that holds the room's lock
C30_AsClaimed ==
    [][\A r \in RoomIds :
          EntriesAndHost(r)' # EntriesAndHost(r) => RunningHoldsLock(r)]_vars

\* the labels at which a handler waits in Lock.acquire
WaitPcs == {"join_wait", "leave_wait", "confirm_wait", "notify_wait", "omr_wait"}
Waiting(t) == tasks[t].pc \in WaitPcs

\* the locks task t holds
HeldBy(t) == {l \in LockIds : locks[l].holder = t}

SweepEnds(t) ==
    /\ tasks[t].op = "check_hosts"
    /\ tasks[t].pc # "ch_failed"
    /\ tasks'[t].op = "idle" \/ tasks'[t].pc = "ch_failed"

\* C32: a check_hosts sweep ends only when it has visited every room it
\* started with, and it ends with the loop still running
C32_AsClaimed ==
    [][\A t \in Tasks :
          SweepEnds(t) => (tasks[t].keys = <<>> /\ tasks'[t].pc # "ch_failed")]_vars

\* the locks whose holder is outside every `async with` block on that lock
Leaked == {l \in LockIds :
              /\ locks[l].holder # NoTask
              /\ ~(/\ tasks[locks[l].holder].pc \in SectionPcs
                   /\ tasks[locks[l].holder].lock = l)}

\* task t is inside the section it asked the lock for
Acquired(t) == tasks[t].pc \in SectionPcs /\ locks[tasks[t].lock].holder = t

\* C33: a lock is held only by a task inside a section on it, so every exit
\* of a section (the end of the block, the QueueFull return, a raised send)
\* has released it and an ended handler holds none; and a task waiting for
\* a lock eventually enters its section
C33_ReleaseOnEveryExit ==
    /\ [](Leaked = {})
    /\ [](\A t \in Tasks : tasks[t].op = "idle" => HeldBy(t) = {})
    /\ \A t \in Tasks : Waiting(t) ~> Acquired(t)
C33_Witness ==
    \E t1, t2 \in Tasks :
        /\ tasks[t1].op = "idle"
        /\ tasks[t2].pc = "join_wait"
        /\ locks[tasks[t2].lock].holder = NoTask
        /\ locks[tasks[t2].lock].waiters = <<t2>>
        /\ tasks[t2].room = 1
        /\ Len(EntriesOf(queues, 1)) = MAX_QUEUE_SIZE

\* the operations that change the entries or the host of a room
MutatingOps == {"join", "leave", "leave_ad", "confirm", "omr", "check_hosts",
                "host_select"}

\* the labels inside update_queue_message
RenderPcs == {"uqm_entry", "uqm_fetch", "uqm_edit"}

\* C34: the render that follows a mutation of a room always goes on to the
\* notification gate, also when no display message is tracked for the room
\* or the tracked message is missing on the platform
C34_AsClaimed ==
    [][\A t \in Tasks :
          (/\ tasks[t].op \in MutatingOps
           /\ tasks[t].pc \in RenderPcs
           /\ tasks'[t].pc \notin RenderPcs)
              => tasks'[t].pc = "notify_entry"]_vars

\* the advertisement the sweep in slot t is handling
Handled(t) == Head(tasks[t].keys)

\* room r exists and has a queue
Backed(r) == r \in channels /\ r \in DOMAIN queues

\* C35: the sweep sends an advertisement to deletion only when the room it
\* refers to does not exist or has no queue, it marks no other advertisement
\* deleted, and once it has handled an advertisement that id is not tracked
\* for a room without a backing room or queue
C35_OnlyOrphansDeleted ==
    [][\A t \in Tasks :
          /\ (tasks[t].pc = "cob_loop" /\ tasks'[t].pc = "cob_delete")
                 => /\ ~Backed(ads[Handled(t)].room)
                    /\ tasks'[t].msg = Handled(t)
          /\ (tasks[t].pc = "cob_loop" /\ tasks[t].keys # <<>> /\ tasks'[t] # tasks[t])
                 => \A r \in DOMAIN broadcast_messages' :
                        Handled(t) \in SeqToSet(broadcast_messages'[r]) => Backed(r)
          /\ (tasks[t].pc = "cob_delete" /\ tasks'[t].pc # "cob_delete")
                 => \A id \in DOMAIN ads :
                        (ads[id].live /\ ~ads'[id].live) => id = Handled(t)]_vars

\* an advertisement posted after the deletion of its room, and tracked for
\* it, was found by the sweep, untracked and deleted
C35_Witness ==
    \E t \in Tasks :
        /\ tasks[t].op = "cob"
        /\ tasks[t].pc = "cob_loop"
        /\ tasks[t].result = "tracked"
        /\ 1 \notin channels
        /\ ~ads[tasks[t].msg].live
        /\ broadcast_messages = EmptyDict

\* C36: a step in which PullSelect.callback moves its target finds the target
\* in the waitlist of the room
C36_AsClaimed ==
    [][\A t \in Tasks :
          (tasks[t].pc = "pull_move" /\ tasks'[t].pc = "pull_dm")
              => tasks[t].target \in UserIds(EntriesOf(queues, tasks[t].room))]_vars

\* C37: the step of GroupInfoModal.on_submit that replaces the group
\* constraints of a room is taken for a user the room's host check accepts in
\* the state of that step
C37_AsClaimed ==
    [][\A t \in Tasks :
          (/\ tasks[t].op = "group_info_submit"
           /\ tasks[t].pc = "gi_defer"
           /\ group_info' # group_info)
              => ~HostCheckRejects(tasks[t].user, tasks[t].room)]_vars

\* room r was deleted and its teardown has ended
TornDown(r) ==
    /\ r \notin channels
    /\ \A t \in Tasks : ~(tasks[t].op = "teardown" /\ tasks[t].room = r)

\* C38: once a room is deleted, its teardown has ended and no per-room map
\* has its key, no step of any handler gives a per-room map that key again
C38_AsClaimed ==
    [][\A r \in RoomIds : (TornDown(r) /\ NoKey(r)) => NoKey(r)']_vars

\* the results of a Join or Leave that changed the entries
Mutated == {"joined", "updated", "removed"}

\* C39: the step that ends a Join or Leave that changed the entries of a room
\* whose channel exists and that was not evicted leaves the current time as
\* the room's last activity, also when the display is missing or its edit
\* failed
C39_AsClaimed ==
    [][\A t \in Tasks :
          (/\ tasks[t].op \in {"join", "leave"}
           /\ tasks[t].result \in Mutated
           /\ tasks[t].room \in channels
           /\ tasks[t].room \in DOMAIN queue_last_active'
           /\ tasks'[t].op = "idle")
              => queue_last_active'[tasks[t].room] = now]_vars
====
